---- MODULE Spec2Model ----
(***************************************************************************)
(* The write-driven TarSum digest of jlhawn/dockramp                       *)
(* (Godeps/_workspace/src/github.com/jlhawn/tarsum/tarsumdigest.go) and    *)
(* the ordering of its per-entry sums (fileinfosums).                      *)
(*                                                                         *)
(* Bytes are naturals, byte strings are sequences of naturals.  The tar    *)
(* reader, the resumable sha256 and the header selectors are packages the  *)
(* digest imports; they are modelled by their contracts.                   *)
(***************************************************************************)
EXTENDS Integers, Sequences, FiniteSets, TLC

(***************************************************************************)
(* Strings (names, digests, hash input) are sequences of character codes.  *)
(***************************************************************************)
Min(a, b) == IF a <= b THEN a ELSE b

\* F of the value of v, v evaluated once.
Bind(v, F(_)) == CHOOSE r \in {F(x) : x \in {v}} : TRUE

HasPrefix(s, p) == Len(s) >= Len(p) /\ SubSeq(s, 1, Len(p)) = p

HasSuffix(s, p) == Len(s) >= Len(p) /\ SubSeq(s, Len(s) - Len(p) + 1, Len(s)) = p

\* strings.TrimLeft: s without its leading characters that occur in p.
RECURSIVE TrimLeft(_, _)
TrimLeft(s, p) ==
    IF s # << >> /\ \E i \in 1..Len(p) : p[i] = s[1] THEN TrimLeft(Tail(s), p) ELSE s

\* strings.TrimPrefix: s without the leading prefix p, if it has it.
TrimPrefix(s, p) == IF HasPrefix(s, p) THEN SubSeq(s, Len(p) + 1, Len(s)) ELSE s

\* strings.TrimSuffix: s without the trailing suffix p, if it has it.
TrimSuffix(s, p) == IF HasSuffix(s, p) THEN SubSeq(s, 1, Len(s) - Len(p)) ELSE s

(***************************************************************************)
(* Byte buffers (bytes.Buffer, []byte).  A buffer's unread bytes are kept  *)
(* run-length encoded: a sequence of runs <<byte, count>>, count > 0, no   *)
(* two neighbouring runs of the same byte, so that equal byte strings are  *)
(* equal values.                                                           *)
(***************************************************************************)
bRun(b, n) == IF n > 0 THEN << <<b, n>> >> ELSE << >>

bZeros(n) == bRun(0, n)

\* len(buf)
RECURSIVE bLen(_)
bLen(s) == IF s = << >> THEN 0 ELSE s[1][2] + bLen(Tail(s))

\* append(s, t...)
bCat(s, t) ==
    IF s = << >> THEN t
    ELSE IF t = << >> THEN s
    ELSE IF s[Len(s)][1] = t[1][1]
    THEN SubSeq(s, 1, Len(s) - 1) \o << <<t[1][1], s[Len(s)][2] + t[1][2]>> >> \o Tail(t)
    ELSE s \o t

\* s[:k], or all of s if it is shorter
RECURSIVE bTake(_, _)
bTake(s, k) ==
    IF k <= 0 \/ s = << >> THEN << >>
    ELSE IF s[1][2] >= k THEN << <<s[1][1], k>> >>
    ELSE <<s[1]>> \o bTake(Tail(s), k - s[1][2])

\* s[k:], or nothing if s is shorter
RECURSIVE bDrop(_, _)
bDrop(s, k) ==
    IF k <= 0 \/ s = << >> THEN s
    ELSE IF s[1][2] > k THEN << <<s[1][1], s[1][2] - k>> >> \o Tail(s)
    ELSE bDrop(Tail(s), k - s[1][2])

\* s[from-1 : to]
bSub(s, from, to) == bTake(bDrop(s, from - 1), to - from + 1)

\* []byte(string)
RECURSIVE bFromSeq(_)
bFromSeq(q) == IF q = << >> THEN << >> ELSE bCat(bRun(q[1], 1), bFromSeq(Tail(q)))

\* string([]byte)
RECURSIVE bToSeq(_)
bToSeq(s) == IF s = << >> THEN << >> ELSE [i \in 1..s[1][2] |-> s[1][1]] \o bToSeq(Tail(s))

bIsZero(s) == \A i \in 1..Len(s) : s[i][1] = 0

\* Lexicographic order of two strings (Go's < on strings).
RECURSIVE LexLess(_, _)
LexLess(s, t) ==
    IF Len(t) = 0 THEN FALSE
    ELSE IF Len(s) = 0 THEN TRUE
    ELSE IF s[1] # t[1] THEN s[1] < t[1]
    ELSE LexLess(Tail(s), Tail(t))

(***************************************************************************)
(* Constants of tarsumdigest.go                                            *)
(***************************************************************************)
blockSize == 512

archiveEndBlock == bZeros(blockSize * 2)

\* The bitwise AND of two non-negative integers.
RECURSIVE bitAnd(_, _)
bitAnd(a, b) ==
    IF a = 0 \/ b = 0 THEN 0
    ELSE (a % 2) * (b % 2) + 2 * bitAnd(a \div 2, b \div 2)

\* The values of the integer type sizes are negated in: two's complement,
\* of a width that holds every size of the streams written.
intModulus == 1073741824

\* blockSize - (size % blockSize): the padding the code's comment says it
\* replaces.
computeBlockPaddingWhole(size) == blockSize - (size % blockSize)

\* int(-size & (blockSize - 1))
computeBlockPadding(size) ==
    bitAnd((intModulus - (size % intModulus)) % intModulus, blockSize - 1)

stageReadHeader == "readHeader"
stageReadEntry == "readEntry"
stageSkipPadding == "skipPadding"
stageFinished == "finished"

Stages == {stageReadHeader, stageReadEntry, stageSkipPadding, stageFinished}

\* error values: nil, io.EOF, io.ErrUnexpectedEOF, tar.ErrHeader
nil == "nil"
EOF == "EOF"
ErrUnexpectedEOF == "unexpected EOF"
ErrHeader == "archive/tar: invalid tar header"

(***************************************************************************)
(* Package sha256 (resumable hash), modelled by its contract: writes are   *)
(* folded into a running register, so only the concatenation of the bytes  *)
(* written matters; State/Restore export and import the register.          *)
(***************************************************************************)
HashModulus == 16777213

HashMultiplier == 127

sha256New == [h |-> 0, len |-> 0]

\* The register after the bytes p[from..to], in order: the first half's
\* register is computed (h >= 0 always), then the second half's from it.
RECURSIVE sha256Fold(_, _, _, _)
sha256Fold(h, p, from, to) ==
    IF from > to \/ h < 0 THEN h
    ELSE IF from = to THEN (h * HashMultiplier + p[from] + 1) % HashModulus
    ELSE LET mid == (from + to) \div 2
         IN sha256Fold(sha256Fold(h, p, from, mid), p, mid + 1, to)

sha256Write(hash, p) ==
    [h |-> sha256Fold(hash.h, p, 1, Len(p)), len |-> hash.len + Len(p)]

\* hash.Sum(nil): the digest bytes of everything written so far.
sha256Sum(hash) ==
    LET f == (hash.h * HashMultiplier + hash.len + 1) % HashModulus
    IN <<f \div 65536, (f \div 256) % 256, f % 256>>

sha256State(hash) == <<hash.h, hash.len>>

sha256Restore(state) == [h |-> state[1], len |-> state[2]]

\* hex.EncodeToString: two hexadecimal digits per byte.
RECURSIVE hexEncodeToString(_)
hexEncodeToString(b) ==
    IF Len(b) = 0 THEN <<>>
    ELSE LET hextable(n) == IF n < 10 THEN 48 + n ELSE 87 + n
         IN <<hextable(b[1] \div 16), hextable(b[1] % 16)>> \o hexEncodeToString(Tail(b))

(***************************************************************************)
(* Package archive/tar, modelled by its contract.  A header block holds    *)
(* the NUL-padded name, the size, the type flag and a checksum; the rest   *)
(* of the block is zero.  An extended (PAX) header is a block of type 'x'  *)
(* whose body lists extended-attribute keys and which precedes the header  *)
(* it extends.                                                             *)
(***************************************************************************)
TypeReg == 48
TypeDir == 53
TypeXHeader == 120

nameFieldLen == 4

headerChecksum(fields) ==
    1 + ((fields[1] + fields[2] + fields[3] + fields[4]
          + fields[5] + fields[6] + fields[7]) % 255)

\* tar.Writer.WriteHeader for one block.
headerBlock(name, size, typeflag) ==
    LET fields == name \o [i \in 1..(nameFieldLen - Len(name)) |-> 0]
                  \o <<size \div 256, size % 256, typeflag>>
    IN bCat(bFromSeq(fields \o <<headerChecksum(fields)>>),
            bZeros(blockSize - nameFieldLen - 4))

\* The name up to its first NUL.
RECURSIVE cString(_)
cString(b) == IF Len(b) = 0 \/ b[1] = 0 THEN <<>> ELSE <<b[1]>> \o cString(Tail(b))

newTarReader == [err |-> nil, pad |-> 0, nb |-> 0, curr |-> FALSE]

\* tar.Reader.Reset(r): read from r, forgetting the previous entry and error.
tarReset(tr) == newTarReader

\* Reader.skipUnread: discard what is left of the current entry and its padding.
tarSkipUnread(tr, buf) ==
    LET nr == tr.nb + tr.pad
    IN [tr |-> [tr EXCEPT !.nb = 0, !.pad = 0, !.curr = FALSE,
                          !.err = IF bLen(buf) < nr THEN EOF ELSE nil],
        buf |-> bDrop(buf, nr)]

\* Reader.readHeader: one header block; two zero blocks are the end of the archive.
tarReadHeader(tr, buf) ==
    IF bLen(buf) < blockSize
    THEN [hdr |-> << >>, buf |-> << >>,
          tr |-> [tr EXCEPT !.err = IF bLen(buf) = 0 THEN EOF ELSE ErrUnexpectedEOF]]
    ELSE
      LET header == bTake(buf, blockSize)
          rest == bDrop(buf, blockSize)
      IN IF bIsZero(header)
         THEN IF bLen(rest) < blockSize
              THEN [hdr |-> << >>, buf |-> << >>,
                    tr |-> [tr EXCEPT !.err = IF bLen(rest) = 0 THEN EOF
                                              ELSE ErrUnexpectedEOF]]
              ELSE [hdr |-> << >>, buf |-> bDrop(rest, blockSize),
                    tr |-> [tr EXCEPT !.err = IF bIsZero(bTake(rest, blockSize))
                                              THEN EOF ELSE ErrHeader]]
         ELSE
           LET fields == bToSeq(bTake(header, nameFieldLen + 4))
           IN IF fields[nameFieldLen + 4] # headerChecksum(fields)
              THEN [hdr |-> << >>, buf |-> rest, tr |-> [tr EXCEPT !.err = ErrHeader]]
              ELSE
                LET size == fields[nameFieldLen + 1] * 256 + fields[nameFieldLen + 2]
                IN [hdr |-> <<[Name |-> cString(SubSeq(fields, 1, nameFieldLen)),
                               Size |-> size,
                               Typeflag |-> fields[nameFieldLen + 3],
                               Xattrs |-> << >>]>>,
                    buf |-> rest,
                    tr |-> [tr EXCEPT !.nb = size, !.curr = TRUE,
                                      !.pad = computeBlockPadding(size)]]

\* Reader.Next: advance to the next entry; hdr is <<header>> or << >> with tr.err set.
tarNext(tr0, buf0) ==
    Bind(IF tr0.err = nil THEN tarSkipUnread(tr0, buf0) ELSE [tr |-> tr0, buf |-> buf0],
         LAMBDA s :
      IF s.tr.err # nil THEN [hdr |-> << >>, buf |-> s.buf, tr |-> s.tr]
      ELSE
        Bind(tarReadHeader(s.tr, s.buf), LAMBDA h :
          IF h.hdr = << >> \/ h.hdr[1].Typeflag # TypeXHeader THEN h
          ELSE \* the extended header's body, then its padding, then the real header
            IF bLen(h.buf) < h.tr.nb
            THEN [hdr |-> << >>, buf |-> << >>,
                  tr |-> [h.tr EXCEPT !.err = ErrUnexpectedEOF,
                                      !.nb = h.tr.nb - bLen(h.buf)]]
            ELSE
              Bind(tarSkipUnread([h.tr EXCEPT !.nb = 0], bDrop(h.buf, h.tr.nb)),
                   LAMBDA k :
                IF k.tr.err # nil THEN [hdr |-> << >>, buf |-> k.buf, tr |-> k.tr]
                ELSE
                  Bind(tarReadHeader(k.tr, k.buf), LAMBDA r :
                    IF r.hdr = << >> THEN r
                    ELSE [r EXCEPT !.hdr = <<[r.hdr[1] EXCEPT !.Xattrs =
                                                bToSeq(bTake(h.buf, h.tr.nb))]>>]))))

\* Reader.Read: up to n bytes of the current entry's body.
tarRead(tr, buf, n) ==
    IF ~tr.curr \/ tr.nb = 0
    THEN [p |-> << >>, err |-> EOF, tr |-> tr, buf |-> buf]
    ELSE IF buf = << >>
    THEN [p |-> << >>, err |-> ErrUnexpectedEOF, buf |-> buf,
          tr |-> [tr EXCEPT !.err = ErrUnexpectedEOF]]
    ELSE
      LET k == Min(Min(n, tr.nb), bLen(buf))
      IN [p |-> bTake(buf, k), err |-> nil, buf |-> bDrop(buf, k),
          tr |-> [tr EXCEPT !.nb = tr.nb - k]]

\* Reader.State / Reader.Restore: the reader's position within the current entry.
tarState(tr) == <<tr.err, tr.pad, tr.nb, tr.curr>>

tarRestore(state) == [err |-> state[1], pad |-> state[2], nb |-> state[3], curr |-> state[4]]

(***************************************************************************)
(* Header selectors (package tarsum, versioning): the ordered            *)
(* (field, value) pairs of a header that enter the entry hash.             *)
(***************************************************************************)
Version0 == 0
Version1 == 1

Versions == {Version0, Version1}

\* Version.String(): "tarsum" and "tarsum.v1".
versionString(version) ==
    IF version = Version0 THEN <<116, 97, 114, 115, 117, 109>>
    ELSE <<116, 97, 114, 115, 117, 109, 46, 118, 48 + version>>

\* strconv.Itoa for n >= 0.
RECURSIVE Itoa(_)
Itoa(n) == IF n < 10 THEN <<48 + n>> ELSE Itoa(n \div 10) \o <<48 + (n % 10)>>

\* sort.Strings on one-byte keys: ascending.
RECURSIVE sortKeys(_)
sortKeys(keys) ==
    IF Len(keys) <= 1 THEN keys
    ELSE LET i == CHOOSE i \in 1..Len(keys) :
                    /\ \A j \in 1..Len(keys) : keys[i] <= keys[j]
                    /\ \A j \in 1..(i - 1) : keys[j] # keys[i]
         IN <<keys[i]>> \o sortKeys(SubSeq(keys, 1, i - 1) \o SubSeq(keys, i + 1, Len(keys)))

\* getTarHeaderSelector: the selector of a supported version, else an error.
getTarHeaderSelector(version) ==
    IF version \in Versions THEN [selector |-> version, err |-> nil]
    ELSE [selector |-> version, err |-> "tarsum: invalid version"]

\* tarHeaderSelector.selectHeaders: version 0 takes name and size; version 1
\* adds the type flag and every extended attribute, sorted by key.
selectHeaders(selector, h) ==
    LET base == << <<<<110, 97, 109, 101>>, h.Name>>,
                   <<<<115, 105, 122, 101>>, Itoa(h.Size)>> >>
        keys == sortKeys(h.Xattrs)
    IN IF selector = Version0 THEN base
       ELSE base \o << <<<<116, 121, 112, 101, 102, 108, 97, 103>>, <<h.Typeflag>>>> >>
                 \o [i \in 1..Len(keys) |-> <<<<keys[i]>>, <<118>>>>]

(***************************************************************************)
(* fileInfoSums: the completed entries and their order                     *)
(***************************************************************************)
\* GetDuplicatePaths: every entry whose name an earlier entry of the list has.
GetDuplicatePaths(fis) ==
    LET dup(i) == \E j \in 1..(i - 1) : fis[j].name = fis[i].name
        RECURSIVE collect(_)
        collect(i) == IF i > Len(fis) THEN << >>
                      ELSE (IF dup(i) THEN <<fis[i]>> ELSE << >>) \o collect(i + 1)
    IN collect(1)

\* Less as byPos has it: by position alone.
bySumLessPos(fis, dups, i, j) == fis[i + 1].pos < fis[j + 1].pos

\* bySum.Less; i and j count from 0, as the slice's indices do.
bySumLess(fis, dups, i, j) ==
    IF dups # << >> /\ fis[i + 1].name = fis[j + 1].name
    THEN fis[i + 1].pos < fis[j + 1].pos
    ELSE LexLess(fis[i + 1].sum, fis[j + 1].sum)

\* fileInfoSums.Swap
Swap(fis, i, j) == [fis EXCEPT ![i + 1] = fis[j + 1], ![j + 1] = fis[i + 1]]

(***************************************************************************)
(* sort.Sort of the Go release the Dockerfile builds with (1.4.2), on      *)
(* bySum{fis, dups}: quicksort down to seven elements, insertion sort      *)
(* below, heapsort when the depth runs out.                                *)
(***************************************************************************)
\* for j := i; j > a && data.Less(j, j-1); j-- { data.Swap(j, j-1) }
RECURSIVE insertLoop(_, _, _, _)
insertLoop(fis, dups, a, j) ==
    IF j > a /\ bySumLess(fis, dups, j, j - 1)
    THEN Bind(Swap(fis, j, j - 1), LAMBDA f : insertLoop(f, dups, a, j - 1))
    ELSE fis

\* for i := ...; i < b; i++ { ... }
RECURSIVE insertionSortFrom(_, _, _, _, _)
insertionSortFrom(fis, dups, a, b, i) ==
    IF i >= b THEN fis
    ELSE Bind(insertLoop(fis, dups, a, i),
              LAMBDA f : insertionSortFrom(f, dups, a, b, i + 1))

insertionSort(fis, dups, a, b) == insertionSortFrom(fis, dups, a, b, a + 1)

\* siftDown(data, lo, hi, first), from root on
RECURSIVE siftDown(_, _, _, _, _)
siftDown(fis, dups, root, hi, first) ==
    LET left == 2 * root + 1
        child == IF left + 1 < hi /\ bySumLess(fis, dups, first + left, first + left + 1)
                 THEN left + 1 ELSE left
    IN IF left >= hi THEN fis
       ELSE IF ~bySumLess(fis, dups, first + root, first + child) THEN fis
       ELSE Bind(Swap(fis, first + root, first + child),
                 LAMBDA f : siftDown(f, dups, child, hi, first))

\* for i := (hi - 1) / 2; i >= 0; i-- { siftDown(data, i, hi, first) }
RECURSIVE heapBuild(_, _, _, _, _)
heapBuild(fis, dups, i, hi, first) ==
    IF i < 0 THEN fis
    ELSE Bind(siftDown(fis, dups, i, hi, first),
              LAMBDA f : heapBuild(f, dups, i - 1, hi, first))

\* for i := hi - 1; i >= 0; i-- { data.Swap(first, first+i); siftDown(data, lo, i, first) }
RECURSIVE heapPop(_, _, _, _)
heapPop(fis, dups, i, first) ==
    IF i < 0 THEN fis
    ELSE Bind(siftDown(Swap(fis, first, first + i), dups, 0, i, first),
              LAMBDA f : heapPop(f, dups, i - 1, first))

heapSort(fis, dups, a, b) ==
    heapPop(heapBuild(fis, dups, (b - a - 1) \div 2, b - a, a), dups, b - a - 1, a)

\* medianOfThree(data, a, b, c): the median of the three into data[a].
medianOfThree(fis, dups, a, b, c) ==
    LET f1 == IF bySumLess(fis, dups, a, b) THEN Swap(fis, a, b) ELSE fis
        f2 == IF bySumLess(f1, dups, c, a) THEN Swap(f1, c, a) ELSE f1
    IN IF bySumLess(f2, dups, a, b) THEN Swap(f2, a, b) ELSE f2

\* swapRange(data, a, b, n)
RECURSIVE swapRange(_, _, _, _)
swapRange(fis, a, b, n) ==
    IF n <= 0 THEN fis ELSE swapRange(Swap(fis, a, b), a + 1, b + 1, n - 1)

\* doPivot's first inner loop: skip what is below the pivot, gather what equals it.
RECURSIVE pivotUp(_, _, _)
pivotUp(st, dups, pivot) ==
    IF st.b >= st.c THEN st
    ELSE IF bySumLess(st.fis, dups, st.b, pivot)
    THEN pivotUp([st EXCEPT !.b = st.b + 1], dups, pivot)
    ELSE IF ~bySumLess(st.fis, dups, pivot, st.b)
    THEN pivotUp([st EXCEPT !.fis = Swap(st.fis, st.a, st.b),
                            !.a = st.a + 1, !.b = st.b + 1], dups, pivot)
    ELSE st

\* doPivot's second inner loop: the same from the top down.
RECURSIVE pivotDown(_, _, _)
pivotDown(st, dups, pivot) ==
    IF st.b >= st.c THEN st
    ELSE IF bySumLess(st.fis, dups, pivot, st.c - 1)
    THEN pivotDown([st EXCEPT !.c = st.c - 1], dups, pivot)
    ELSE IF ~bySumLess(st.fis, dups, st.c - 1, pivot)
    THEN pivotDown([st EXCEPT !.fis = Swap(st.fis, st.c - 1, st.d - 1),
                              !.c = st.c - 1, !.d = st.d - 1], dups, pivot)
    ELSE st

\* doPivot's outer loop
RECURSIVE pivotLoop(_, _, _)
pivotLoop(st, dups, pivot) ==
    Bind(pivotDown(pivotUp(st, dups, pivot), dups, pivot), LAMBDA s :
         IF s.b >= s.c THEN s
         ELSE pivotLoop([s EXCEPT !.fis = Swap(s.fis, s.b, s.c - 1),
                                  !.b = s.b + 1, !.c = s.c - 1], dups, pivot))

\* doPivot(data, lo, hi), for hi - lo <= 40 (no ninther)
doPivot(fis, dups, lo, hi) ==
    LET m == lo + (hi - lo) \div 2
    IN Bind(pivotLoop([fis |-> medianOfThree(fis, dups, lo, m, hi - 1),
                       a |-> lo + 1, b |-> lo + 1, c |-> hi, d |-> hi], dups, lo),
            LAMBDA s :
              LET n1 == Min(s.b - s.a, s.a - lo)
                  n2 == Min(hi - s.d, s.d - s.c)
              IN [fis |-> swapRange(swapRange(s.fis, lo, s.b - n1, n1),
                                    s.c, hi - n2, n2),
                  midlo |-> lo + s.b - s.a, midhi |-> hi - (s.d - s.c)])

RECURSIVE quickSort(_, _, _, _, _)
quickSort(fis, dups, a, b, maxDepth) ==
    IF b - a > 7
    THEN IF maxDepth = 0 THEN heapSort(fis, dups, a, b)
         ELSE Bind(doPivot(fis, dups, a, b), LAMBDA p :
                IF p.midlo - a < b - p.midhi
                THEN Bind(quickSort(p.fis, dups, a, p.midlo, maxDepth - 1), LAMBDA f :
                          quickSort(f, dups, p.midhi, b, maxDepth - 1))
                ELSE Bind(quickSort(p.fis, dups, p.midhi, b, maxDepth - 1), LAMBDA f :
                          quickSort(f, dups, a, p.midlo, maxDepth - 1)))
    ELSE IF b - a > 1 THEN insertionSort(fis, dups, a, b)
    ELSE fis

\* sort.Sort
RECURSIVE bitLen(_)
bitLen(n) == IF n <= 0 THEN 0 ELSE 1 + bitLen(n \div 2)

sortSort(fis, dups) == quickSort(fis, dups, 0, Len(fis), 2 * bitLen(Len(fis)))

\* fileInfoSums.SortBySums
SortBySums(fis) == Bind(GetDuplicatePaths(fis), LAMBDA dups : sortSort(fis, dups))

(***************************************************************************)
(* Digest: the struct, as a record of its fields, and its methods          *)
(***************************************************************************)
copyBufLen == 32 * 1024

\* Digest.Reset
Reset(tsd) ==
    [tsd EXCEPT !.headerBuffer = << >>, !.currentBuffer = << >>,
                !.digestStage = stageReadHeader,
                !.tarReader = newTarReader,
                !.entryHash = sha256New,
                !.sums = << >>,
                !.fileCounter = 0,
                !.bytesWritten = 0,
                !.currentFilename = << >>,
                !.pad = 0,
                !.err = nil]

\* NewDigest, for a supported version
NewDigest(version) ==
    Reset([headerSelector |-> getTarHeaderSelector(version).selector,
           version |-> version,
           headerBuffer |-> << >>, currentBuffer |-> << >>,
           digestStage |-> "", tarReader |-> newTarReader, entryHash |-> sha256New,
           sums |-> << >>, fileCounter |-> 0, bytesWritten |-> 0,
           currentFilename |-> << >>, pad |-> 0, err |-> nil])

\* encodeHeader selecting the fields of version 1 whatever the session's version.
encodeHeaderAllFields(tsd, header) ==
    LET elems == selectHeaders(Version1, header)
        RECURSIVE enc(_, _)
        enc(hash, i) == IF i > Len(elems) THEN hash
                        ELSE enc(sha256Write(hash, elems[i][1] \o elems[i][2]), i + 1)
    IN [tsd EXCEPT !.entryHash = enc(tsd.entryHash, 1)]

\* Digest.encodeHeader: every selected pair, name then value, into the entry hash.
encodeHeader(tsd, header) ==
    LET elems == selectHeaders(tsd.headerSelector, header)
        RECURSIVE enc(_, _)
        enc(hash, i) == IF i > Len(elems) THEN hash
                        ELSE enc(sha256Write(hash, elems[i][1] \o elems[i][2]), i + 1)
    IN [tsd EXCEPT !.entryHash = enc(tsd.entryHash, 1)]

\* isEndOfArchive asking for more than the two blocks.
isEndOfArchiveLonger(tsd) ==
    LET endLength == bLen(archiveEndBlock)
    IN bLen(tsd.headerBuffer) > endLength
       /\ bTake(tsd.headerBuffer, endLength) = archiveEndBlock

\* Digest.isEndOfArchive
isEndOfArchive(tsd) ==
    LET endLength == bLen(archiveEndBlock)
    IN bLen(tsd.headerBuffer) >= endLength
       /\ bTake(tsd.headerBuffer, endLength) = archiveEndBlock

\* copyWithBuf returning the reader's io.EOF instead of nil.
RECURSIVE copyWithBufEOF(_)
copyWithBufEOF(tsd) ==
    Bind(tarRead(tsd.tarReader, tsd.currentBuffer, copyBufLen), LAMBDA r :
      Bind([tsd EXCEPT !.tarReader = r.tr, !.currentBuffer = r.buf,
                       !.entryHash = IF r.p # << >>
                                     THEN sha256Write(tsd.entryHash, bToSeq(r.p))
                                     ELSE tsd.entryHash],
           LAMBDA t : IF r.err # nil THEN [d |-> t, err |-> r.err]
                      ELSE copyWithBufEOF(t)))

\* Digest.copyWithBuf(tsd.entryHash, tsd.tarReader)
RECURSIVE copyWithBuf(_)
copyWithBuf(tsd) ==
    Bind(tarRead(tsd.tarReader, tsd.currentBuffer, copyBufLen), LAMBDA r :
      Bind([tsd EXCEPT !.tarReader = r.tr, !.currentBuffer = r.buf,
                       !.entryHash = IF r.p # << >>
                                     THEN sha256Write(tsd.entryHash, bToSeq(r.p))
                                     ELSE tsd.entryHash],
           LAMBDA t : IF r.err = EOF THEN [d |-> t, err |-> nil]
                      ELSE IF r.err # nil THEN [d |-> t, err |-> r.err]
                      ELSE copyWithBuf(t)))

\* Sum giving the hash of extra alone unless the session finished without error.
SumFinishedOnly(tsd, extra) ==
    Bind(SortBySums(tsd.sums), LAMBDA sorted :
      LET RECURSIVE feed(_, _)
          feed(hash, i) == IF i > Len(sorted) \/ tsd.digestStage # stageFinished
                              \/ tsd.err # nil
                           THEN hash
                           ELSE feed(sha256Write(hash, sorted[i].sum), i + 1)
      IN [d |-> [tsd EXCEPT !.sums = sorted],
          sum |-> sha256Sum(feed(sha256Write(sha256New, extra), 1))])

\* Sum leaving the session without the sums it has hashed.
SumClearing(tsd, extra) ==
    Bind(SortBySums(tsd.sums), LAMBDA sorted :
      LET RECURSIVE feed(_, _)
          feed(hash, i) == IF i > Len(sorted) THEN hash
                           ELSE feed(sha256Write(hash, sorted[i].sum), i + 1)
      IN [d |-> [tsd EXCEPT !.sums = << >>],
          sum |-> sha256Sum(feed(sha256Write(sha256New, extra), 1))])

\* Digest.Sum: sorts the sums, then hashes extra and every sum in order.
Sum(tsd, extra) ==
    Bind(SortBySums(tsd.sums), LAMBDA sorted :
      LET RECURSIVE feed(_, _)
          feed(hash, i) == IF i > Len(sorted) THEN hash
                           ELSE feed(sha256Write(hash, sorted[i].sum), i + 1)
      IN [d |-> [tsd EXCEPT !.sums = sorted],
          sum |-> sha256Sum(feed(sha256Write(sha256New, extra), 1))])

\* Digest.Label
Label(tsd) == versionString(tsd.version) \o <<43, 115, 104, 97, 50, 53, 54>>

\* Digest.SumString
SumString(tsd, extra) ==
    Bind(Sum(tsd, extra), LAMBDA r :
         [d |-> r.d, str |-> Label(tsd) \o <<58>> \o hexEncodeToString(r.sum)])

(***************************************************************************)
(* The handlers of Write.  Each returns its error and, in `call`, the      *)
(* handler it ends by calling ("" if none); handler runs them in turn.     *)
(***************************************************************************)
NoCall(tsd, err) == [d |-> tsd, err |-> err, call |-> ""]

\* skipPadding without its reset of the entry hash.
skipPaddingKeepHash(tsd) ==
    LET padding == bTake(tsd.currentBuffer, tsd.pad)
    IN Bind([tsd EXCEPT !.currentBuffer = bDrop(tsd.currentBuffer, tsd.pad),
                        !.pad = tsd.pad - bLen(padding)], LAMBDA t :
         IF t.pad > 0 THEN NoCall(t, nil)
         ELSE [d |-> [t EXCEPT !.sums = Append(t.sums,
                                          [name |-> t.currentFilename,
                                           sum |-> hexEncodeToString(sha256Sum(t.entryHash)),
                                           pos |-> t.fileCounter]),
                               !.fileCounter = t.fileCounter + 1,
                               !.headerBuffer = t.currentBuffer,
                               !.currentBuffer = << >>,
                               !.digestStage = stageReadHeader],
               err |-> nil, call |-> stageReadHeader])

\* skipPadding without its increment of the file counter.
skipPaddingSameCounter(tsd) ==
    LET padding == bTake(tsd.currentBuffer, tsd.pad)
    IN Bind([tsd EXCEPT !.currentBuffer = bDrop(tsd.currentBuffer, tsd.pad),
                        !.pad = tsd.pad - bLen(padding)], LAMBDA t :
         IF t.pad > 0 THEN NoCall(t, nil)
         ELSE [d |-> [t EXCEPT !.sums = Append(t.sums,
                                          [name |-> t.currentFilename,
                                           sum |-> hexEncodeToString(sha256Sum(t.entryHash)),
                                           pos |-> t.fileCounter]),
                               !.entryHash = sha256New,
                               !.headerBuffer = t.currentBuffer,
                               !.currentBuffer = << >>,
                               !.digestStage = stageReadHeader],
               err |-> nil, call |-> stageReadHeader])

\* skipPadding keeping the padding bytes buffered until all of them are there.
skipPaddingBuffering(tsd) ==
    IF bLen(tsd.currentBuffer) < tsd.pad THEN NoCall(tsd, nil)
    ELSE
      Bind([tsd EXCEPT !.currentBuffer = bDrop(tsd.currentBuffer, tsd.pad),
                       !.pad = 0], LAMBDA t :
         [d |-> [t EXCEPT !.sums = Append(t.sums,
                                     [name |-> t.currentFilename,
                                      sum |-> hexEncodeToString(sha256Sum(t.entryHash)),
                                      pos |-> t.fileCounter]),
                          !.entryHash = sha256New,
                          !.fileCounter = t.fileCounter + 1,
                          !.headerBuffer = t.currentBuffer,
                          !.currentBuffer = << >>,
                          !.digestStage = stageReadHeader],
          err |-> nil, call |-> stageReadHeader])

\* Digest.skipPadding
skipPadding(tsd) ==
    LET padding == bTake(tsd.currentBuffer, tsd.pad)
    IN Bind([tsd EXCEPT !.currentBuffer = bDrop(tsd.currentBuffer, tsd.pad),
                        !.pad = tsd.pad - bLen(padding)], LAMBDA t :
         IF t.pad > 0 THEN NoCall(t, nil)
         ELSE [d |-> [t EXCEPT !.sums = Append(t.sums,
                                          [name |-> t.currentFilename,
                                           sum |-> hexEncodeToString(sha256Sum(t.entryHash)),
                                           pos |-> t.fileCounter]),
                               !.entryHash = sha256New,
                               !.fileCounter = t.fileCounter + 1,
                               !.headerBuffer = t.currentBuffer,
                               !.currentBuffer = << >>,
                               !.digestStage = stageReadHeader],
               err |-> nil, call |-> stageReadHeader])

\* readEntry taking io.ErrUnexpectedEOF for fatal.
readEntryFatalEOF(tsd) ==
    IF bLen(tsd.currentBuffer) = 0 THEN NoCall(tsd, nil)
    ELSE
      Bind(copyWithBuf(tsd), LAMBDA c :
        IF c.err # nil
        THEN NoCall(c.d, c.err)
        ELSE [d |-> [c.d EXCEPT !.digestStage = stageSkipPadding],
              err |-> nil, call |-> stageSkipPadding])

\* Digest.readEntry
readEntry(tsd) ==
    IF bLen(tsd.currentBuffer) = 0 THEN NoCall(tsd, nil)
    ELSE
      Bind(copyWithBuf(tsd), LAMBDA c :
        IF c.err # nil
        THEN NoCall(c.d, IF c.err = ErrUnexpectedEOF THEN nil ELSE c.err)
        ELSE [d |-> [c.d EXCEPT !.digestStage = stageSkipPadding],
              err |-> nil, call |-> stageSkipPadding])

\* readHeader taking one zero block for the end of the archive.
readHeaderOneZeroBlock(tsd) ==
    IF bLen(tsd.headerBuffer) >= blockSize /\ bIsZero(bTake(tsd.headerBuffer, blockSize))
    THEN NoCall([tsd EXCEPT !.digestStage = stageFinished], nil)
    ELSE IF bLen(tsd.headerBuffer) < 2 * blockSize THEN NoCall(tsd, nil)
    ELSE
      Bind(tarNext(tarReset(tsd.tarReader), tsd.headerBuffer), LAMBDA nx :
        LET t == [tsd EXCEPT !.currentBuffer = nx.buf, !.tarReader = nx.tr]
        IN IF nx.tr.err # nil
           THEN IF nx.tr.err = EOF \/ nx.tr.err = ErrUnexpectedEOF
                THEN NoCall(t, nil)
                ELSE NoCall(t, nx.tr.err)
           ELSE
             LET tarHeader == nx.hdr[1]
                 e == encodeHeader(
                        [t EXCEPT !.currentFilename =
                             TrimSuffix(TrimPrefix(tarHeader.Name, <<46, 47>>), <<47>>)],
                        tarHeader)
             IN [d |-> [e EXCEPT !.pad = computeBlockPadding(tarHeader.Size),
                                 !.digestStage = stageReadEntry],
                 err |-> nil, call |-> stageReadEntry])

\* readHeader taking a header that is not all there yet for a fatal error.
readHeaderFatalShort(tsd) ==
    IF bLen(tsd.headerBuffer) < 2 * blockSize THEN NoCall(tsd, nil)
    ELSE
      Bind(tarNext(tarReset(tsd.tarReader), tsd.headerBuffer), LAMBDA nx :
        LET t == [tsd EXCEPT !.currentBuffer = nx.buf, !.tarReader = nx.tr]
        IN IF nx.tr.err # nil
           THEN IF nx.tr.err = EOF /\ isEndOfArchive(t)
                THEN NoCall([SumString(t, << >>).d EXCEPT !.digestStage = stageFinished],
                            nil)
                ELSE IF nx.tr.err = EOF
                THEN NoCall(t, nil)
                ELSE NoCall(t, nx.tr.err)
           ELSE
             LET tarHeader == nx.hdr[1]
                 e == encodeHeader(
                        [t EXCEPT !.currentFilename =
                             TrimSuffix(TrimPrefix(tarHeader.Name, <<46, 47>>), <<47>>)],
                        tarHeader)
             IN [d |-> [e EXCEPT !.pad = computeBlockPadding(tarHeader.Size),
                                 !.digestStage = stageReadEntry],
                 err |-> nil, call |-> stageReadEntry])

\* readHeader going straight to skipPadding for an entry without a body.
readHeaderSkippingEmpty(tsd) ==
    IF bLen(tsd.headerBuffer) < 2 * blockSize THEN NoCall(tsd, nil)
    ELSE
      Bind(tarNext(tarReset(tsd.tarReader), tsd.headerBuffer), LAMBDA nx :
        LET t == [tsd EXCEPT !.currentBuffer = nx.buf, !.tarReader = nx.tr]
        IN IF nx.tr.err # nil
           THEN IF nx.tr.err = EOF /\ isEndOfArchive(t)
                THEN NoCall([SumString(t, << >>).d EXCEPT !.digestStage = stageFinished],
                            nil)
                ELSE IF nx.tr.err = EOF \/ nx.tr.err = ErrUnexpectedEOF
                THEN NoCall(t, nil)
                ELSE NoCall(t, nx.tr.err)
           ELSE
             LET tarHeader == nx.hdr[1]
                 e == encodeHeader(
                        [t EXCEPT !.currentFilename =
                             TrimSuffix(TrimPrefix(tarHeader.Name, <<46, 47>>), <<47>>)],
                        tarHeader)
                 next == IF tarHeader.Size = 0 THEN stageSkipPadding ELSE stageReadEntry
             IN [d |-> [e EXCEPT !.pad = computeBlockPadding(tarHeader.Size),
                                 !.digestStage = next],
                 err |-> nil, call |-> next])

\* Digest.readHeader
readHeader(tsd) ==
    IF bLen(tsd.headerBuffer) < 2 * blockSize THEN NoCall(tsd, nil)
    ELSE
      Bind(tarNext(tarReset(tsd.tarReader), tsd.headerBuffer), LAMBDA nx :
        LET t == [tsd EXCEPT !.currentBuffer = nx.buf, !.tarReader = nx.tr]
        IN IF nx.tr.err # nil
           THEN IF nx.tr.err = EOF /\ isEndOfArchive(t)
                THEN \* the debug line's argument calls SumString, which sorts
                     NoCall([SumString(t, << >>).d EXCEPT !.digestStage = stageFinished],
                            nil)
                ELSE IF nx.tr.err = EOF \/ nx.tr.err = ErrUnexpectedEOF
                THEN NoCall(t, nil)
                ELSE NoCall(t, nx.tr.err)
           ELSE
             LET tarHeader == nx.hdr[1]
                 e == encodeHeader(
                        [t EXCEPT !.currentFilename =
                             TrimSuffix(TrimPrefix(tarHeader.Name, <<46, 47>>), <<47>>)],
                        tarHeader)
             IN [d |-> [e EXCEPT !.pad = computeBlockPadding(tarHeader.Size),
                                 !.digestStage = stageReadEntry],
                 err |-> nil, call |-> stageReadEntry])

\* The handler Write has chosen, run to its return.
RECURSIVE handler(_, _)
handler(tsd, name) ==
    Bind(IF name = stageReadHeader THEN readHeader(tsd)
         ELSE IF name = stageReadEntry THEN readEntry(tsd)
         ELSE skipPadding(tsd),
         LAMBDA r : IF r.call = "" THEN [d |-> r.d, err |-> r.err]
                    ELSE handler(r.d, r.call))

\* Write returning 0 for a Finished session.
WriteRefusing(tsd, p) ==
    IF tsd.digestStage = stageFinished
    THEN [d |-> tsd, n |-> 0, err |-> tsd.err]
    ELSE IF tsd.digestStage \notin Stages
    THEN [d |-> [tsd EXCEPT !.err = "unknown TarSum digest stage",
                            !.digestStage = stageFinished],
          n |-> bLen(p), err |-> "unknown TarSum digest stage"]
    ELSE
      LET n == bLen(p)
          w == IF tsd.digestStage = stageReadHeader
               THEN [tsd EXCEPT !.headerBuffer = bCat(tsd.headerBuffer, p),
                                !.bytesWritten = tsd.bytesWritten + n]
               ELSE [tsd EXCEPT !.currentBuffer = bCat(tsd.currentBuffer, p),
                                !.bytesWritten = tsd.bytesWritten + n]
      IN Bind(handler(w, tsd.digestStage),
              LAMBDA r : [d |-> [r.d EXCEPT !.err = r.err,
                                            !.digestStage = IF r.err # nil
                                                            THEN stageFinished
                                                            ELSE r.d.digestStage],
                          n |-> n, err |-> r.err])

\* Write leaving the stage as it is when the handler fails.
WriteKeepStage(tsd, p) ==
    IF tsd.digestStage = stageFinished
    THEN [d |-> tsd, n |-> bLen(p), err |-> tsd.err]
    ELSE IF tsd.digestStage \notin Stages
    THEN [d |-> [tsd EXCEPT !.err = "unknown TarSum digest stage",
                            !.digestStage = stageFinished],
          n |-> bLen(p), err |-> "unknown TarSum digest stage"]
    ELSE
      LET n == bLen(p)
          w == IF tsd.digestStage = stageReadHeader
               THEN [tsd EXCEPT !.headerBuffer = bCat(tsd.headerBuffer, p),
                                !.bytesWritten = tsd.bytesWritten + n]
               ELSE [tsd EXCEPT !.currentBuffer = bCat(tsd.currentBuffer, p),
                                !.bytesWritten = tsd.bytesWritten + n]
      IN Bind(handler(w, tsd.digestStage),
              LAMBDA r : [d |-> [r.d EXCEPT !.err = r.err], n |-> n, err |-> r.err])

\* Write returning, of the bytes of p, only those its handlers did not leave
\* in the header buffer for a later Write.
WriteCountingHandled(tsd, p) ==
    IF tsd.digestStage = stageFinished
    THEN [d |-> tsd, n |-> bLen(p), err |-> tsd.err]
    ELSE IF tsd.digestStage \notin Stages
    THEN [d |-> [tsd EXCEPT !.err = "unknown TarSum digest stage",
                            !.digestStage = stageFinished],
          n |-> bLen(p), err |-> "unknown TarSum digest stage"]
    ELSE
      LET n == bLen(p)
          w == IF tsd.digestStage = stageReadHeader
               THEN [tsd EXCEPT !.headerBuffer = bCat(tsd.headerBuffer, p),
                                !.bytesWritten = tsd.bytesWritten + n]
               ELSE [tsd EXCEPT !.currentBuffer = bCat(tsd.currentBuffer, p),
                                !.bytesWritten = tsd.bytesWritten + n]
      IN Bind(handler(w, tsd.digestStage),
              LAMBDA r : [d |-> [r.d EXCEPT !.err = r.err,
                                            !.digestStage = IF r.err # nil
                                                            THEN stageFinished
                                                            ELSE r.d.digestStage],
                          n |-> IF r.d.digestStage = stageReadHeader
                                THEN n - Min(n, bLen(r.d.headerBuffer))
                                ELSE n,
                          err |-> r.err])

\* Digest.Write
Write(tsd, p) ==
    IF tsd.digestStage = stageFinished
    THEN [d |-> tsd, n |-> bLen(p), err |-> tsd.err]
    ELSE IF tsd.digestStage \notin Stages
    THEN [d |-> [tsd EXCEPT !.err = "unknown TarSum digest stage",
                            !.digestStage = stageFinished],
          n |-> bLen(p), err |-> "unknown TarSum digest stage"]
    ELSE
      LET n == bLen(p)
          w == IF tsd.digestStage = stageReadHeader
               THEN [tsd EXCEPT !.headerBuffer = bCat(tsd.headerBuffer, p),
                                !.bytesWritten = tsd.bytesWritten + n]
               ELSE [tsd EXCEPT !.currentBuffer = bCat(tsd.currentBuffer, p),
                                !.bytesWritten = tsd.bytesWritten + n]
      IN Bind(handler(w, tsd.digestStage),
              LAMBDA r : [d |-> [r.d EXCEPT !.err = r.err,
                                            !.digestStage = IF r.err # nil
                                                            THEN stageFinished
                                                            ELSE r.d.digestStage],
                          n |-> n, err |-> r.err])

\* The values digestStage takes while the handler Write has chosen runs to
\* its return: the value each handler of the chain leaves.
RECURSIVE handlerStages(_, _)
handlerStages(tsd, name) ==
    Bind(IF name = stageReadHeader THEN readHeader(tsd)
         ELSE IF name = stageReadEntry THEN readEntry(tsd)
         ELSE skipPadding(tsd),
         LAMBDA r : IF r.call = "" THEN <<r.d.digestStage>>
                    ELSE <<r.d.digestStage>> \o handlerStages(r.d, r.call))

\* The values digestStage takes during Write(p): the one it finds, those its
\* handlers leave, and the one it returns with.
WriteStages(tsd, p) ==
    IF tsd.digestStage = stageFinished \/ tsd.digestStage \notin Stages
    THEN <<tsd.digestStage, Write(tsd, p).d.digestStage>>
    ELSE LET w == IF tsd.digestStage = stageReadHeader
                  THEN [tsd EXCEPT !.headerBuffer = bCat(tsd.headerBuffer, p)]
                  ELSE [tsd EXCEPT !.currentBuffer = bCat(tsd.currentBuffer, p)]
         IN <<tsd.digestStage>> \o handlerStages(w, tsd.digestStage)
            \o <<Write(tsd, p).d.digestStage>>

\* Digest.Len
DigestLen(tsd) == tsd.bytesWritten

\* Digest.Finished
Finished(tsd) == tsd.digestStage = stageFinished

(***************************************************************************)
(* State and Restore.  The gob stream is the sequence of encoded values;   *)
(* decoding value k of a stream that holds fewer than k values fails.      *)
(***************************************************************************)
hashName == <<115, 104, 97, 50, 53, 54>>

errDecode == "EOF"

\* The three values of every sum, in list order.
RECURSIVE encodeSums(_, _)
encodeSums(fis, i) ==
    IF i > Len(fis) THEN << >>
    ELSE <<fis[i].name, fis[i].sum, fis[i].pos>> \o encodeSums(fis, i + 1)

\* Digest.State
State(tsd) ==
    IF tsd.err # nil THEN [d |-> tsd, state |-> << >>, err |-> tsd.err]
    ELSE
      LET isFinished == Finished(tsd)
          simple == <<tsd.version, hashName, isFinished, tsd.bytesWritten, tsd.fileCounter>>
          extra == IF isFinished THEN << >>
                   ELSE <<tsd.digestStage, tsd.currentFilename, tsd.pad, tsd.headerBuffer,
                          TRUE, tarState(tsd.tarReader), sha256State(tsd.entryHash)>>
      IN Bind(SortBySums(tsd.sums), LAMBDA sorted :
              [d |-> [tsd EXCEPT !.sums = sorted],
               state |-> simple \o extra \o <<Len(sorted)>> \o encodeSums(sorted, 1),
               err |-> nil])

\* The sums decoded from state[at..], one appended per three values decoded.
RECURSIVE decodeSums(_, _, _, _)
decodeSums(state, at, left, acc) ==
    IF left = 0 THEN [sums |-> acc, err |-> nil]
    ELSE IF at + 2 > Len(state) THEN [sums |-> acc, err |-> errDecode]
    ELSE decodeSums(state, at + 3, left - 1,
                    Append(acc, [name |-> state[at], sum |-> state[at + 1],
                                 pos |-> state[at + 2]]))

\* restoreSums decoding one sum fewer than the count.
restoreSumsShort(tsd, state, at) ==
    IF at > Len(state) THEN [d |-> tsd, err |-> errDecode]
    ELSE LET r == decodeSums(state, at + 1,
                             IF state[at] = 0 THEN 0 ELSE state[at] - 1, << >>)
         IN [d |-> [tsd EXCEPT !.sums = r.sums], err |-> r.err]

\* Restore, from the sums' count at state[at] on.
restoreSums(tsd, state, at) ==
    IF at > Len(state) THEN [d |-> tsd, err |-> errDecode]
    ELSE LET r == decodeSums(state, at + 1, state[at], << >>)
         IN [d |-> [tsd EXCEPT !.sums = r.sums], err |-> r.err]

\* Restore, the fields of an unfinished digest (state[6..]).
restoreUnfinished(tsd, state) ==
    LET n == Len(state)
        a == IF n >= 6 THEN [tsd EXCEPT !.digestStage = state[6]] ELSE tsd
        b == IF n >= 7 THEN [a EXCEPT !.currentFilename = state[7]] ELSE a
        c == IF n >= 8 THEN [b EXCEPT !.pad = state[8]] ELSE b
    IN IF n < 9 THEN [d |-> c, err |-> errDecode]
       ELSE
         LET e == [c EXCEPT !.headerBuffer = bCat(c.headerBuffer, state[9])]
         IN IF n < 10 THEN [d |-> e, err |-> errDecode]
            ELSE
              LET f == [e EXCEPT !.tarReader = tarReset(e.tarReader)]
                  decodeTarReader == state[10]
                  at == IF decodeTarReader THEN 12 ELSE 11
              IN IF decodeTarReader /\ n < 11 THEN [d |-> f, err |-> errDecode]
                 ELSE
                   LET g == IF decodeTarReader
                            THEN [f EXCEPT !.tarReader = tarRestore(state[11])]
                            ELSE f
                   IN IF n < at THEN [d |-> g, err |-> errDecode]
                      ELSE restoreSums([g EXCEPT !.entryHash = sha256Restore(state[at])],
                                       state, at + 1)

\* Digest.Restore
Restore(tsd, state) ==
    LET n == Len(state)
        a == IF n >= 1 THEN [tsd EXCEPT !.version = state[1]] ELSE tsd
        b == IF n >= 4 THEN [a EXCEPT !.bytesWritten = state[4]] ELSE a
        c == IF n >= 5 THEN [b EXCEPT !.fileCounter = state[5]] ELSE b
    IN IF n < 5 THEN [d |-> c, err |-> errDecode]
       ELSE IF state[3]
       THEN restoreSums([c EXCEPT !.digestStage = stageFinished], state, 6)
       ELSE restoreUnfinished(c, state)

(***************************************************************************)
(* The archive producer: the byte streams a caller writes to a Digest      *)
(***************************************************************************)
\* tar.Writer: the entry's header (after its extended header, if it has
\* extended attributes), its body and the padding to the next block.
entryBytes(e) ==
    LET ext == IF e.xattrs = << >> THEN << >>
               ELSE bCat(headerBlock(<<120>>, Len(e.xattrs), TypeXHeader),
                         bCat(bFromSeq(e.xattrs),
                              bZeros(computeBlockPadding(Len(e.xattrs)))))
    IN bCat(ext, bCat(headerBlock(e.name, e.size, e.typeflag),
                      bCat(bRun(e.fill, e.size), bZeros(computeBlockPadding(e.size)))))

File(name, size, fill, typeflag, xattrs) ==
    [kind |-> "file", name |-> name, size |-> size, fill |-> fill,
     typeflag |-> typeflag, xattrs |-> xattrs]

\* A block that is no header: its checksum is wrong.
junkBlock == bCat(bFromSeq(<<97, 0, 0, 0, 0, 0, TypeReg, 0>>), bZeros(blockSize - 8))

\* What streams are made of: entries "a" (empty), "b" (513 bytes), "a" with an
\* extended attribute, the directory "./a/"; a junk block; one zero block;
\* then "c" (1 byte), "a" (1 byte), "b" (empty), the third entry without
\* its extended attribute, the directory "a//" and the file ".a".
Items ==
    <<File(<<97>>, 0, 0, TypeReg, << >>),
      File(<<98>>, blockSize + 1, 7, TypeReg, << >>),
      File(<<97>>, 2, 7, TypeReg, <<107>>),
      File(<<46, 47, 97, 47>>, 0, 0, TypeDir, << >>),
      [kind |-> "junk"],
      [kind |-> "zero"],
      File(<<99>>, 1, 3, TypeReg, << >>),
      File(<<97>>, 1, 9, TypeReg, << >>),
      File(<<98>>, 0, 0, TypeReg, << >>),
      File(<<97>>, 2, 7, TypeReg, << >>),
      File(<<97, 47, 47>>, 0, 0, TypeDir, << >>),
      File(<<46, 97>>, 1, 5, TypeReg, << >>)>>

itemBytes(it) ==
    IF it.kind = "file" THEN entryBytes(it)
    ELSE IF it.kind = "junk" THEN junkBlock
    ELSE bZeros(blockSize)

RECURSIVE itemsBytes(_, _)
itemsBytes(arch, i) ==
    IF i > Len(arch) THEN << >>
    ELSE bCat(itemBytes(Items[arch[i]]), itemsBytes(arch, i + 1))

\* tar.Writer.Close: the entries, then two zero blocks.
Stream(arch) == bCat(itemsBytes(arch, 1), archiveEndBlock)

\* What follows the archive in the file that holds it.
Trailer == bFromSeq(<<0, 5>>)

Input(arch) == bCat(Stream(arch), Trailer)

WellFormed(arch) == \A i \in 1..Len(arch) : Items[arch[i]].kind = "file"

MaxEntries == 2

RECURSIVE SeqsUpTo(_, _)
SeqsUpTo(S, n) ==
    IF n = 0 THEN {<< >>}
    ELSE LET shorter == SeqsUpTo(S, n - 1)
         IN shorter \cup {Append(q, x) : q \in {r \in shorter : Len(r) = n - 1}, x \in S}

\* The items of the streams written in pieces.
StreamItems == {1, 2, 3, 4, 5, 6}

Archives == SeqsUpTo(StreamItems, MaxEntries)

\* Writes end within Window bytes of a block boundary, or where the archive
\* or the input ends.
Window == 3

IsSplitPoint(q) == q % blockSize <= Window \/ q % blockSize >= blockSize - Window

\* The split point after at.
NextSplitPoint(at) ==
    IF IsSplitPoint(at + 1) THEN at + 1 ELSE at + (blockSize - Window) - (at % blockSize)

\* Where a Write that starts at `at` may end: at once (no bytes), at the next
\* split point, one or two blocks on, with the archive, or with the input.
ChunkEnds(at, archiveEnd, inputEnd) ==
    {q \in {at, NextSplitPoint(at), at + blockSize, at + 2 * blockSize,
            archiveEnd, inputEnd} : at <= q /\ q <= inputEnd}

(***************************************************************************)
(* One Digest fed one stream by its caller                                 *)
(***************************************************************************)
VARIABLES
    tsd,        \* the Digest
    archive,    \* the items of the stream being written (indices into Items)
    pos,        \* how many bytes of Input(archive) the caller has written
    last,       \* the last Write since Reset: the stage it found, what it returned
    restored,   \* what the last Restore since Reset returned; "none" before it
    builder,    \* the Builder
    commands,   \* the commands parsed from the Dockerfile
    stepIndex,  \* the index of the next command of Run's loop
    result,     \* what Run returned; "new" before Run, "running" during it
    step,       \* the last step of Run: the command, the calls made, the error
    builds,     \* how many builds were started
    pc,         \* where each goroutine of a RUN's attach is
    chans,      \* what each channel of a RUN's attach holds
    attach,     \* the container, connection and pipe of a RUN's attach
    tokens      \* the tokens the lexer hands to Parse

\* The goroutines of handleRun's attach: handleRun itself, the one that calls
\* hijack, hijack's two copiers, and the one that calls stdcopy.StdCopy.
Goroutines == {"handleRun", "hijack", "output", "input", "StdCopy"}

\* The channels of attachContainer and of hijack.
Channels == {"hijackStarted", "hijackErr", "outputErr", "inputErr"}

runVars == <<pc, chans, attach, tokens>>

\* No RUN is attaching and nothing is parsed.
NoAttach ==
    /\ pc = [g \in Goroutines |-> "idle"]
    /\ chans = [c \in Channels |-> << >>]
    /\ attach = << >>
    /\ tokens = << >>

buildVars == <<builder, commands, stepIndex, result, step, builds, runVars>>

vars == <<tsd, archive, pos, last, restored, buildVars>>

\* No Builder: a Digest used on its own.
NoBuild ==
    /\ builder = << >> /\ commands = << >> /\ stepIndex = 0
    /\ result = "none" /\ step = << >> /\ builds = 0
    /\ NoAttach

NoWrite == [op |-> "none", all |-> TRUE, err |-> nil, stage |-> stageReadHeader]

Init ==
    /\ archive \in Archives
    /\ \E version \in Versions : tsd = NewDigest(version)
    /\ pos = 0
    /\ last = NoWrite
    /\ restored = "none"
    /\ NoBuild

\* One Write of the bytes of input from pos up to q.
WriteUpTo(input, q) ==
    \E p \in {bSub(input, pos + 1, q)} :
      \E r \in {Write(tsd, p)} :
        /\ tsd' = r.d
        /\ last' = [op |-> "Write", all |-> (r.n = bLen(p)), err |-> r.err,
                    stage |-> tsd.digestStage]
        /\ pos' = q
        /\ UNCHANGED <<archive, restored, buildVars>>

\* The caller writes the next bytes of its stream, up to a split point.
DoWrite ==
    \E input \in {Input(archive)} :
      \E q \in ChunkEnds(pos, bLen(input) - bLen(Trailer), bLen(input)) :
        WriteUpTo(input, q)

\* The caller resets the Digest and starts its stream over.
DoReset ==
    /\ tsd' = Reset(tsd)
    /\ pos' = 0
    /\ last' = NoWrite
    /\ restored' = "none"
    /\ UNCHANGED <<archive, buildVars>>

\* The caller asks for the sum.
DoSum ==
    /\ tsd' = Sum(tsd, << >>).d
    /\ UNCHANGED <<archive, pos, last, restored, buildVars>>

\* The caller takes the state and restores it into a session that was Reset
\* (fresh = FALSE) or newly made for the same version (fresh = TRUE).
DoCheckpoint ==
    \E fresh \in BOOLEAN, s \in {State(tsd)} :
        /\ s.err = nil
        /\ \E r \in {Restore(IF fresh THEN NewDigest(tsd.version) ELSE Reset(s.d),
                              s.state)} :
             tsd' = r.d /\ restored' = r.err
        /\ UNCHANGED <<archive, pos, last, buildVars>>

Next == DoWrite \/ DoReset \/ DoSum \/ DoCheckpoint

Spec == Init /\ [][Next]_vars

(***************************************************************************)
(* One Digest fed an archive of up to three entries, entry by entry        *)
(***************************************************************************)
\* The items of the archives whose order matters: "a", "b", "./a/", "c", "a".
OrderItems == {1, 2, 4, 7, 8}

MaxOrderEntries == 3

OrderArchives == SeqsUpTo(OrderItems, MaxOrderEntries)

OrderInit ==
    /\ archive \in OrderArchives
    /\ \E version \in Versions : tsd = NewDigest(version)
    /\ pos = 0
    /\ last = NoWrite
    /\ restored = "none"
    /\ NoBuild

\* Where the k first entries of the archive end.
EntryEnd(arch, k) == bLen(itemsBytes(SubSeq(arch, 1, k), 1))

\* The caller writes up to the end of some next entry, or of the archive.
WriteEntries ==
    \E input \in {Stream(archive)} :
      \E q \in {EntryEnd(archive, k) : k \in 1..Len(archive)} \cup {bLen(input)} :
        q > pos /\ WriteUpTo(input, q)

OrderNext == WriteEntries \/ DoSum

SpecOrder == OrderInit /\ [][OrderNext]_vars

(***************************************************************************)
(* One Digest written, in one Write, an archive of eight entries: "a" and  *)
(* "./a/" repeated, and one "c"                                            *)
(***************************************************************************)
LongEntries == 8

LongArchives ==
    {arch \in [1..LongEntries -> {1, 4, 7}] :
        Cardinality({i \in 1..LongEntries : arch[i] = 7}) = 1}

LongInit ==
    /\ archive \in LongArchives
    /\ \E version \in Versions : tsd = NewDigest(version)
    /\ pos = 0
    /\ last = NoWrite
    /\ restored = "none"
    /\ NoBuild

\* The caller writes the whole archive.
WriteArchive ==
    /\ pos = 0
    /\ \E input \in {Stream(archive)} : WriteUpTo(input, bLen(input))

LongNext == WriteArchive \/ DoSum

SpecLong == LongInit /\ [][LongNext]_vars

(***************************************************************************)
(* What the caller has written, and the same bytes written in one Write    *)
(***************************************************************************)
archiveEnd == bLen(Stream(archive))

inputEnd == bLen(Input(archive))

\* A new session of the same version after one Write of the first n bytes.
OneWrite(n) == Write(NewDigest(tsd.version), bTake(Input(archive), n)).d

Entries(d) == {d.sums[i] : i \in 1..Len(d.sums)}

\* Where the stream has a junk block after nothing but entries, or -1.
JunkOffset ==
    LET first == {i \in 1..Len(archive) : Items[archive[i]].kind # "file"}
    IN IF first = {} THEN -1
       ELSE LET i == CHOOSE k \in first : \A m \in first : k <= m
            IN IF Items[archive[i]].kind = "junk"
               THEN bLen(itemsBytes(SubSeq(archive, 1, i - 1), 1))
               ELSE -1

C2_ChunkingInvariance ==
    (restored = "none" /\ pos \in {archiveEnd, inputEnd}) =>
        LET one == OneWrite(pos)
        IN /\ tsd.digestStage = one.digestStage
           /\ Entries(tsd) = Entries(one)
           /\ Sum(tsd, << >>).sum = Sum(one, << >>).sum

C2_Witness ==
    /\ restored = "none" /\ pos = inputEnd /\ Len(archive) = MaxEntries
    /\ last.stage = stageFinished /\ tsd.fileCounter = MaxEntries

(***************************************************************************)
(* C3: once every byte of a well-formed archive has been written, the      *)
(* session is Finished, records no error, and has completed as many        *)
(* entries as the archive holds.                                           *)
(***************************************************************************)
C3_WellFormedFinishes ==
    (WellFormed(archive) /\ pos >= archiveEnd) =>
        /\ Finished(tsd)
        /\ tsd.err = nil
        /\ Len(tsd.sums) = Len(archive)
        /\ tsd.fileCounter = Len(archive)

C3_Witness ==
    /\ WellFormed(archive) /\ Len(archive) = MaxEntries /\ pos = archiveEnd
    /\ last.op = "Write" /\ last.stage = stageReadHeader /\ Finished(tsd)

(***************************************************************************)
(* C7: of the 1024 zero bytes of the empty archive, written in whatever    *)
(* Writes to a session of either version, every Write accepts all its      *)
(* bytes without error, and after the last of them the session is          *)
(* Finished with no error and no entry, its Sum the hash of no input.      *)
(***************************************************************************)
C7_EmptyArchive ==
    (archive = << >> /\ pos <= archiveEnd) =>
        /\ last.all /\ last.err = nil
        /\ pos = archiveEnd =>
              /\ Finished(tsd) /\ tsd.err = nil /\ tsd.sums = << >>
              /\ Sum(tsd, << >>).sum = sha256Sum(sha256New)

C7_Witness ==
    /\ archive = << >> /\ pos = archiveEnd /\ restored = "none"
    /\ last.op = "Write" /\ Finished(tsd)

C9_AsStated == DigestLen(tsd) = pos

(***************************************************************************)
(* C10: a session records an error only by a Write that returns it, and    *)
(* is then Finished; a header block that does not decode is such an error  *)
(* as soon as the two blocks from it on have been written; and the         *)
(* session stays Finished with that error through every step but Reset.    *)
(***************************************************************************)
C10_FatalHeaderError ==
    /\ [](tsd.err # nil =>
             Finished(tsd) /\ last.op = "Write" /\ last.err = tsd.err)
    /\ []((JunkOffset >= 0 /\ pos >= JunkOffset + 2 * blockSize) =>
             tsd.err = ErrHeader)
    /\ [][(tsd.err # nil /\ last'.op = "Write") =>
             (Finished(tsd') /\ tsd'.err = tsd.err /\ last'.err = tsd.err)]_vars

C10_Witness ==
    /\ JunkOffset > 0 /\ pos = inputEnd /\ last.stage = stageFinished
    /\ Finished(tsd) /\ tsd.err = ErrHeader /\ last.err = ErrHeader

(***************************************************************************)
(* Archives with their entries in another order                            *)
(***************************************************************************)
\* A new session of the same version after one Write of the archive arch.
OneWriteOf(arch) == Write(NewDigest(tsd.version), Stream(arch)).d

\* The name an entry goes by in the sums.
EntryName(arch, i) ==
    TrimSuffix(TrimPrefix(Items[arch[i]].name, <<46, 47>>), <<47>>)

DistinctNames(arch) ==
    \A i, j \in 1..Len(arch) : i # j => EntryName(arch, i) # EntryName(arch, j)

\* Every order of the entries of arch.
Reorderings(arch) ==
    {[i \in 1..Len(arch) |-> arch[f[i]]] : f \in Permutations(1..Len(arch))}

\* arch with entries i and j exchanged.
Exchanged(arch, i, j) == [arch EXCEPT ![i] = arch[j], ![j] = arch[i]]

\* arch with entry i taken out and put in again as entry k.
Moved(arch, i, k) ==
    LET rest == SubSeq(arch, 1, i - 1) \o SubSeq(arch, i + 1, Len(arch))
    IN SubSeq(rest, 1, k - 1) \o <<arch[i]>> \o SubSeq(rest, k, Len(rest))

\* Entry i has a name of its own, and two other entries share one.
UniqueAmongDuplicates(arch, i) ==
    /\ \A j \in 1..Len(arch) : j # i => EntryName(arch, j) # EntryName(arch, i)
    /\ \E j, k \in 1..Len(arch) : j # k /\ EntryName(arch, j) = EntryName(arch, k)

\* The digests Sum feeds to the top-level hash, in order.
FedDigests(d) ==
    LET sorted == Sum(d, << >>).d.sums
    IN [k \in 1..Len(sorted) |-> sorted[k].sum]

\* The digest of the entry completed at position k.
DigestAt(d, k) == (CHOOSE e \in Entries(d) : e.pos = k).sum

(***************************************************************************)
(* C4: an archive whose entries all have distinct names has the Sum of     *)
(* every reordering of its entries.                                        *)
(***************************************************************************)
C4_DistinctNamesAnyOrder ==
    (pos = archiveEnd /\ DistinctNames(archive)) =>
        \A arch \in Reorderings(archive) :
            Sum(tsd, << >>).sum = Sum(OneWriteOf(arch), << >>).sum

C4_Witness ==
    /\ pos = archiveEnd /\ DistinctNames(archive) /\ Len(archive) = MaxOrderEntries
    /\ Finished(tsd) /\ tsd.sums[1].pos # 0

(***************************************************************************)
(* C5, as stated: in the digests Sum feeds to the top-level hash, entries  *)
(* of the same name are in ascending position, whatever the archive; and   *)
(* exchanging, in the stream, two entries of the same name and different   *)
(* digests changes the sequence of digests fed.                            *)
(***************************************************************************)
C5_AsStated ==
    /\ LET sorted == Sum(tsd, << >>).d.sums
       IN \A i, j \in 1..Len(sorted) :
            (i < j /\ sorted[i].name = sorted[j].name) => sorted[i].pos < sorted[j].pos
    /\ pos = archiveEnd =>
          \A i, j \in 1..Len(archive) :
            (/\ i < j
             /\ EntryName(archive, i) = EntryName(archive, j)
             /\ DigestAt(tsd, i - 1) # DigestAt(tsd, j - 1)) =>
                FedDigests(OneWriteOf(Exchanged(archive, i, j))) # FedDigests(tsd)

(***************************************************************************)
(* C6, as stated: in an archive with entries that share a name and an      *)
(* entry whose name is its own, moving that entry to another place in the  *)
(* stream leaves the Sum as it was.                                        *)
(***************************************************************************)
C6_AsStated ==
    pos = archiveEnd =>
        \A i, k \in 1..Len(archive) :
            UniqueAmongDuplicates(archive, i) =>
                Sum(tsd, << >>).sum = Sum(OneWriteOf(Moved(archive, i, k)), << >>).sum

(***************************************************************************)
(* C11, as stated: when the caller stops after writing less than a         *)
(* well-formed archive (it may stop after any Write), the session is       *)
(* Finished with an error recorded.                                        *)
(***************************************************************************)
C11_AsStated ==
    (WellFormed(archive) /\ pos < archiveEnd /\ last.op = "Write") =>
        Finished(tsd) /\ tsd.err # nil

(***************************************************************************)
(* C11, amended: while less than a well-formed archive has been written    *)
(* the session is in one of the three reading stages with no error         *)
(* recorded and none returned; nothing but a further Write moves it, so a  *)
(* caller that stops there leaves it unfinished and without error.         *)
(***************************************************************************)
C11_TruncatedStaysOpen ==
    (WellFormed(archive) /\ pos < archiveEnd) =>
        /\ tsd.digestStage \in {stageReadHeader, stageReadEntry, stageSkipPadding}
        /\ tsd.err = nil /\ last.err = nil /\ last.all

C11_Witness ==
    /\ WellFormed(archive) /\ Len(archive) = MaxEntries /\ pos < archiveEnd
    /\ last.op = "Write" /\ tsd.digestStage = stageReadEntry /\ tsd.fileCounter = 1

\* The entries completed so far, as an archive of their own.
Completed(d) == SubSeq(archive, 1, Len(d.sums))

RestoreItems == {1, 2, 3}

MaxRestoreEntries == 2

RestoreArchives == SeqsUpTo(RestoreItems, MaxRestoreEntries)

RestoreInit ==
    /\ archive \in RestoreArchives
    /\ \E version \in Versions : tsd = NewDigest(version)
    /\ pos = 0
    /\ last = NoWrite
    /\ restored = "none"
    /\ NoBuild

\* Where the checkpoints are taken: before the archive, inside its first
\* header, after its first block, where an entry ends, and at its end.
CheckpointEnds(arch) ==
    {n \in {0, 1, blockSize + 1} \cup {EntryEnd(arch, k) : k \in 1..Len(arch)}
            \cup {bLen(Stream(arch))} : n <= bLen(Stream(arch))}

\* State() of a session of the version that was written n bytes of the archive.
Checkpoint(version, n) ==
    State(Write(NewDigest(version), bTake(Stream(archive), n)).d).state

\* The name of a hash the package does not have: "sha512".
otherHashName == <<115, 104, 97, 53, 49, 50>>

\* The caller restores its session, in whatever state, from the k first values
\* of a checkpoint, taken of a session of either version and naming either hash.
DoRestore ==
    /\ restored = "none"
    /\ \E version \in Versions, n \in CheckpointEnds(archive),
          hashType \in {hashName, otherHashName} :
         \E full \in {[Checkpoint(version, n) EXCEPT ![2] = hashType]} :
           \E k \in 0..Len(full) :
             \E r \in {Restore(tsd, SubSeq(full, 1, k))} :
               /\ tsd' = r.d
               /\ restored' = r.err
               /\ last' = [op |-> "Restore", all |-> (k = Len(full)), err |-> r.err,
                           stage |-> tsd.digestStage, target |-> tsd.version,
                           version |-> version, hashType |-> hashType]
               /\ UNCHANGED <<archive, pos, buildVars>>

RestoreNext == WriteEntries \/ DoRestore

SpecRestore == RestoreInit /\ [][RestoreNext]_vars

(***************************************************************************)
(* C13, as stated: a Restore that returns an error leaves every field of   *)
(* the session as it was before the call.                                  *)
(***************************************************************************)
C13_AsStated ==
    [][(restored = "none" /\ restored' \notin {"none", nil}) => tsd' = tsd]_vars

(***************************************************************************)
(* C14, as stated: a Restore from a checkpoint whose version or hash name  *)
(* is not the session's returns an error; and after a Restore that         *)
(* succeeds the session's version is that of its header selector.          *)
(***************************************************************************)
C14_AsStated ==
    /\ (last.op = "Restore"
          /\ (last.version # last.target \/ last.hashType # hashName)) =>
             last.err # nil
    /\ (last.op = "Restore" /\ last.err = nil) => tsd.headerSelector = tsd.version

(***************************************************************************)
(* C15: Sum, SumString and Label may be called any number of times: each   *)
(* call returns the same value as the one before it, the label does not    *)
(* change, and the only change a call makes to the session is the order of *)
(* the entry list, which a further call leaves as it is (sorting a sorted  *)
(* list changes nothing).                                                  *)
(***************************************************************************)
C15_AsStated ==
    /\ Sum(Sum(tsd, << >>).d, << >>).sum = Sum(tsd, << >>).sum
    /\ SumString(Sum(tsd, << >>).d, << >>).str = SumString(tsd, << >>).str
    /\ Label(Sum(tsd, << >>).d) = Label(tsd)
    /\ Sum(Sum(tsd, << >>).d, << >>).d.sums = Sum(tsd, << >>).d.sums
    /\ Sum(tsd, << >>).d = [tsd EXCEPT !.sums = Sum(tsd, << >>).d.sums]

(***************************************************************************)
(* C16: under version 0 two archives that differ only in the extended      *)
(* attributes of their entries have the same per-entry digests and the     *)
(* same aggregate digest: the archive written, once finished, has the sums *)
(* and the Sum of the same archive with the extended attributes removed.   *)
(***************************************************************************)
\* The entry without its extended attributes.
WithoutXattrs(i) ==
    IF Items[i].kind = "file" /\ Items[i].xattrs # << >>
    THEN CHOOSE j \in 1..Len(Items) : Items[j] = [Items[i] EXCEPT !.xattrs = << >>]
    ELSE i

StripXattrs(arch) == [k \in 1..Len(arch) |-> WithoutXattrs(arch[k])]

C16_Version0IgnoresXattrs ==
    (tsd.version = Version0 /\ WellFormed(archive) /\ pos >= archiveEnd) =>
        /\ Finished(tsd)
        /\ Sum(tsd, << >>).d.sums = Sum(OneWriteOf(StripXattrs(archive)), << >>).d.sums
        /\ Sum(tsd, << >>).sum = Sum(OneWriteOf(StripXattrs(archive)), << >>).sum

C16_Witness ==
    /\ tsd.version = Version0 /\ pos >= archiveEnd /\ Finished(tsd)
    /\ archive = <<3, 2>>
    /\ StripXattrs(archive) # archive
    /\ Stream(StripXattrs(archive)) # Stream(archive)
    /\ Len(tsd.sums) = Len(archive)

(***************************************************************************)
(* C17: after Reset, from any reachable state, the session cannot be told  *)
(* from a new session of the same version: it awaits a header, its         *)
(* counters are zero, it has no sums and no error, it has the same label,  *)
(* and writing a stream to it returns what the new session returns and     *)
(* leaves it with the same sum.                                            *)
(***************************************************************************)
C17_AsStated ==
    LET r == Reset(tsd)
        n == NewDigest(tsd.version)
        wr == Write(r, Stream(archive))
        wn == Write(n, Stream(archive))
    IN /\ r.digestStage = stageReadHeader
       /\ r.fileCounter = 0 /\ r.bytesWritten = 0
       /\ r.sums = << >> /\ r.err = nil
       /\ Label(r) = Label(n)
       /\ wr.n = wn.n /\ wr.err = wn.err
       /\ SumString(wr.d, << >>).str = SumString(wn.d, << >>).str

(***************************************************************************)
(* The Builder (package build): Run over the commands of a Dockerfile,     *)
(* against the Docker daemon behind its client.  Strings are sequences of  *)
(* character codes.                                                        *)
(***************************************************************************)
\* package commands: the names of the Dockerfile commands.
commandsAdd == <<65, 68, 68>>
commandsCmd == <<67, 77, 68>>
commandsCopy == <<67, 79, 80, 89>>
commandsEntrypoint == <<69, 78, 84, 82, 89, 80, 79, 73, 78, 84>>
commandsEnv == <<69, 78, 86>>
commandsExpose == <<69, 88, 80, 79, 83, 69>>
commandsExtract == <<69, 88, 84, 82, 65, 67, 84>>
commandsFrom == <<70, 82, 79, 77>>
commandsLabel == <<76, 65, 66, 69, 76>>
commandsMaintainer == <<77, 65, 73, 78, 84, 65, 73, 78, 69, 82>>
commandsOnbuild == <<79, 78, 66, 85, 73, 76, 68>>
commandsRun == <<82, 85, 78>>
commandsUser == <<85, 83, 69, 82>>
commandsVolume == <<86, 79, 76, 85, 77, 69>>
commandsWorkdir == <<87, 79, 82, 75, 68, 73, 82>>

\* commands.FilesystemModifierCommands
FilesystemModifierCommands == {commandsAdd, commandsCopy, commandsExtract, commandsRun}

\* commands.ReplaceEnvAllowed
ReplaceEnvAllowed ==
    {commandsAdd, commandsCopy, commandsEnv, commandsExpose, commandsExtract,
     commandsLabel, commandsUser, commandsVolume, commandsWorkdir}

\* The keys of Builder.handlers, as NewBuilder registers them.
handlers ==
    {commandsCmd, commandsCopy, commandsEntrypoint, commandsEnv, commandsExpose,
     commandsExtract, commandsFrom, commandsLabel, commandsMaintainer, commandsRun,
     commandsUser, commandsVolume, commandsWorkdir, commandsAdd, commandsOnbuild}

\* strings.ToUpper, on ASCII.
ToUpper(s) == [i \in 1..Len(s) |-> IF s[i] \in 97..122 THEN s[i] - 32 ELSE s[i]]

\* strings.Join
RECURSIVE Join(_, _)
Join(a, sep) ==
    IF a = << >> THEN << >>
    ELSE IF Len(a) = 1 THEN a[1]
    ELSE a[1] \o sep \o Join(Tail(a), sep)

\* strconv.Quote, on printable ASCII and the newline: the string between double
\* quotes, with a backslash before each double quote and backslash.
RECURSIVE quoteBody(_)
quoteBody(s) ==
    IF s = << >> THEN << >>
    ELSE (IF s[1] \in {34, 92} THEN <<92, s[1]>>
          ELSE IF s[1] = 10 THEN <<92, 110>>
          ELSE <<s[1]>>) \o quoteBody(Tail(s))

Quote(s) == <<34>> \o quoteBody(s) \o <<34>>

\* makeCommandString: the command and its arguments, those that hold one of
\* <#'" \f\n\r\t\v\ quoted.
makeCommandString(cmd, args) ==
    LET special == {60, 35, 39, 34, 32, 12, 10, 13, 9, 11, 92}
        quotedArgs == [i \in 1..Len(args) |->
                          IF \E k \in 1..Len(args[i]) : args[i][k] \in special
                          THEN Quote(args[i]) ELSE args[i]]
    IN cmd \o <<32>> \o Join(quotedArgs, <<32>>)

\* The value of the variable `name` in env (entries "name=value"; the last
\* entry of a name wins), or the empty string.
RECURSIVE getEnv(_, _)
getEnv(name, env) ==
    IF env = << >> THEN << >>
    ELSE LET e == env[Len(env)]
             n == Len(name)
         IN IF Len(e) > n /\ SubSeq(e, 1, n) = name /\ e[n + 1] = 61
            THEN SubSeq(e, n + 2, Len(e))
            ELSE getEnv(name, SubSeq(env, 1, Len(env) - 1))

\* processShellWord: a word "$name" is replaced by the value of name in env;
\* a word without "$" is returned as it is.
processShellWord(word, env) ==
    IF word # << >> /\ word[1] = 36
    THEN [word |-> getEnv(Tail(word), env), err |-> nil]
    ELSE [word |-> word, err |-> nil]

\* strings.TrimSpace, on ASCII.
RECURSIVE TrimSpace(_)
TrimSpace(s) ==
    LET space == {9, 10, 11, 12, 13, 32}
    IN IF s = << >> THEN s
       ELSE IF s[1] \in space THEN TrimSpace(Tail(s))
       ELSE IF s[Len(s)] \in space THEN TrimSpace(SubSeq(s, 1, Len(s) - 1))
       ELSE s

\* filepath.IsAbs
IsAbs(path) == path # << >> /\ path[1] = 47

\* filepath.Clean, on paths without "." and ".." elements: one slash between
\* elements and none at the end.
RECURSIVE Clean(_)
Clean(path) ==
    IF Len(path) <= 1 THEN path
    ELSE IF path[1] = 47 /\ path[2] = 47 THEN Clean(Tail(path))
    ELSE IF path[Len(path)] = 47 THEN Clean(SubSeq(path, 1, Len(path) - 1))
    ELSE <<path[1]>> \o Clean(Tail(path))

\* filepath.Join: the non-empty elements, joined by slashes and cleaned.
filepathJoin(elems) ==
    Clean(Join(SelectSeq(elems, LAMBDA e : e # << >>), <<47>>))

fromScratch == <<115, 99, 114, 97, 116, 99, 104>>
defaultPathEnv ==
    <<47, 117, 115, 114, 47, 108, 111, 99, 97, 108, 47, 115, 98, 105, 110, 58, 47, 117, 115, 114, 47, 108, 111, 99, 97, 108, 47, 98, 105, 110, 58>>
    \o <<47, 117, 115, 114, 47, 115, 98, 105, 110, 58, 47, 117, 115, 114, 47, 98, 105, 110, 58, 47, 115, 98, 105, 110, 58, 47, 98, 105, 110>>

\* The config of an image the daemon holds: nothing set.  A nil map and an
\* empty map are the same value.
imageConfig ==
    [Cmd |-> << >>, Entrypoint |-> << >>, Env |-> << >>, ExposedPorts |-> {},
     Labels |-> [k \in {} |-> << >>], User |-> << >>, Volumes |-> {},
     WorkingDir |-> << >>]

\* The ID the daemon gives the image of a name, the n-th image it commits and
\* the n-th container it creates.
imageIDOf(name) == <<105>> \o name

committedID(n) == <<105>> \o Itoa(n)

containerIDOf(n) == <<99>> \o Itoa(n)

\* A call of the client to the daemon: noted among the calls of the step.
call(b, name) == [b EXCEPT !.client.calls = Append(@, name)]

\* The call fails during this step.
fails(b, name) == b.client.fail = name

\* NewBuilder, for a context directory and Dockerfile that exist, with the
\* cache that loadCache reads from the cache file.
NewBuilder(client, repo, cacheFile) ==
    [client |-> client, repo |-> repo, out |-> << >>,
     config |-> [Cmd |-> << >>, Entrypoint |-> << >>, Env |-> << >>,
                 ExposedPorts |-> {}, Labels |-> [k \in {} |-> << >>],
                 User |-> << >>, Volumes |-> {}, WorkingDir |-> << >>],
     maintainer |-> << >>, imageID |-> << >>, containerID |-> << >>,
     uncommitted |-> FALSE, uncommittedCommands |-> << >>,
     cache |-> cacheFile, cacheFile |-> cacheFile]

\* Builder.getCacheKey: the hash of the image ID and the uncommitted commands.
getCacheKey(b) ==
    LET RECURSIVE feed(_, _)
        feed(hasher, i) ==
            IF i > Len(b.uncommittedCommands) THEN hasher
            ELSE feed(sha256Write(hasher, b.uncommittedCommands[i]), i + 1)
    IN hexEncodeToString(sha256Sum(feed(sha256Write(sha256New, b.imageID), 1)))

\* probeCache reporting a hit without taking the cached image.
probeCacheKeepsState(b) ==
    Bind(getCacheKey(b), LAMBDA key :
      IF key \notin DOMAIN b.cache THEN [b |-> b, hit |-> FALSE]
      ELSE Bind(call(b, "InspectImage"), LAMBDA c :
             IF fails(c, "InspectImage") \/ b.cache[key] \notin c.client.images
             THEN [b |-> c, hit |-> FALSE]
             ELSE [b |-> c, hit |-> TRUE]))

\* Builder.probeCache
probeCache(b) ==
    Bind(getCacheKey(b), LAMBDA key :
      IF key \notin DOMAIN b.cache THEN [b |-> b, hit |-> FALSE]
      ELSE Bind(call(b, "InspectImage"), LAMBDA c :
             IF fails(c, "InspectImage") \/ b.cache[key] \notin c.client.images
             THEN [b |-> c, hit |-> FALSE]
             ELSE [b |-> [c EXCEPT !.imageID = b.cache[key],
                                   !.uncommitted = FALSE,
                                   !.uncommittedCommands = << >>,
                                   !.out = Append(@, "cache hit")],
                   hit |-> TRUE]))

\* Builder.saveCache
saveCache(b) ==
    IF fails(b, "saveCache") THEN [b |-> b, err |-> "unable to open cache file"]
    ELSE [b |-> [b EXCEPT !.cacheFile = b.cache], err |-> nil]

\* setCache recording the image under the key of the list alone.
setCacheWithoutParent(b, imageID) ==
    saveCache([b EXCEPT !.cache = (getCacheKey([b EXCEPT !.imageID = << >>]) :> imageID) @@ @])

\* Builder.setCache
setCache(b, imageID) ==
    saveCache([b EXCEPT !.cache = (getCacheKey(b) :> imageID) @@ @])

\* Builder.setTag
setTag(b, imgID, repo) ==
    Bind(call(b, "TagImage"), LAMBDA c :
      IF fails(c, "TagImage") THEN [b |-> c, err |-> "request failed"]
      ELSE [b |-> c, err |-> nil])

\* commit forgetting to clear the container.
commitKeepingContainer(b) ==
    IF b.containerID = << >> THEN [b |-> b, err |-> "no container to commit"]
    ELSE Bind(call(b, "Commit"), LAMBDA c :
      IF fails(c, "Commit") THEN [b |-> c, err |-> "request failed"]
      ELSE Bind(call([c EXCEPT !.client.committed = @ + 1,
                               !.client.images = @ \cup {committedID(c.client.committed + 1)}],
                     "RemoveContainer"), LAMBDA d :
        IF fails(d, "RemoveContainer") THEN [b |-> d, err |-> "unable to remove container"]
        ELSE Bind(setCache([d EXCEPT !.client.containers = @ \ {d.containerID}],
                           committedID(d.client.committed)), LAMBDA s :
          IF s.err # nil THEN [b |-> s.b, err |-> "unable to cache commited image"]
          ELSE [b |-> [s.b EXCEPT !.imageID = committedID(d.client.committed),
                                  !.out = Append(@, "--->"),
                                  !.uncommitted = FALSE,
                                  !.uncommittedCommands = << >>],
                err |-> nil])))

\* Builder.commit
commit(b) ==
    IF b.containerID = << >> THEN [b |-> b, err |-> "no container to commit"]
    ELSE Bind(call(b, "Commit"), LAMBDA c :
      IF fails(c, "Commit") THEN [b |-> c, err |-> "request failed"]
      ELSE Bind(call([c EXCEPT !.client.committed = @ + 1,
                               !.client.images = @ \cup {committedID(c.client.committed + 1)}],
                     "RemoveContainer"), LAMBDA d :
        IF fails(d, "RemoveContainer") THEN [b |-> d, err |-> "unable to remove container"]
        ELSE Bind(setCache([d EXCEPT !.client.containers = @ \ {d.containerID}],
                           committedID(d.client.committed)), LAMBDA s :
          IF s.err # nil THEN [b |-> s.b, err |-> "unable to cache commited image"]
          ELSE [b |-> [s.b EXCEPT !.imageID = committedID(d.client.committed),
                                  !.out = Append(@, "--->"),
                                  !.uncommitted = FALSE,
                                  !.uncommittedCommands = << >>,
                                  !.containerID = << >>],
                err |-> nil])))

\* Builder.createContainer
createContainer(b) ==
    Bind(call(b, "CreateContainer"), LAMBDA c :
      IF fails(c, "CreateContainer") THEN [b |-> c, containerID |-> << >>, err |-> "create failed"]
      ELSE [b |-> [c EXCEPT !.client.created = @ + 1,
                            !.client.containers = @ \cup {containerIDOf(c.client.created + 1)}],
            containerID |-> containerIDOf(c.client.created + 1), err |-> nil])

\* Builder.mergeConfig: config is << >> for a nil pointer.  The nil maps it
\* replaces by empty ones are empty already.
mergeConfig(b, config) ==
    LET merged == IF config = << >> THEN b.config ELSE config[1]
    IN [b EXCEPT !.config =
          [merged EXCEPT !.Env = IF Len(merged.Env) = 0
                                 THEN <<<<80, 65, 84, 72, 61>> \o defaultPathEnv>>
                                 ELSE merged.Env]]

\* Builder.handleFrom
handleFrom(b, args, heredoc) ==
    IF Len(args) # 1 THEN [b |-> b, err |-> "FROM requires exactly one argument"]
    ELSE IF args[1] = fromScratch
    THEN [b |-> mergeConfig([b EXCEPT !.imageID = << >>], << >>), err |-> nil]
    ELSE Bind(call(b, "InspectImage"), LAMBDA c :
      IF ~fails(c, "InspectImage") /\ imageIDOf(args[1]) \in c.client.images
      THEN [b |-> mergeConfig([c EXCEPT !.imageID = imageIDOf(args[1])], <<imageConfig>>),
            err |-> nil]
      ELSE Bind(call([c EXCEPT !.out = Append(@, "pulling image ...")], "PullImage"), LAMBDA p :
        IF fails(p, "PullImage") THEN [b |-> p, err |-> "unable to pull image"]
        ELSE Bind(call([p EXCEPT !.client.images = @ \cup {imageIDOf(args[1])}],
                       "InspectImage"), LAMBDA q :
          IF fails(q, "InspectImage") THEN [b |-> q, err |-> "unable to inspect image"]
          ELSE [b |-> mergeConfig([q EXCEPT !.imageID = imageIDOf(args[1])], <<imageConfig>>),
                err |-> nil])))

\* Builder.handleAdd
handleAdd(b, args, heredoc) == [b |-> b, err |-> "ADD not yet supported"]

\* Builder.handleOnbuild
handleOnbuild(b, args, heredoc) == [b |-> b, err |-> "ONBUILD not yet supported"]

\* handleCmd creating a container and committing it.
handleCmdCommitting(b, args, heredoc) ==
    Bind(createContainer([b EXCEPT !.config.Cmd = args]), LAMBDA c :
      IF c.err # nil THEN [b |-> c.b, err |-> "unable to create container"]
      ELSE Bind(commit([c.b EXCEPT !.containerID = c.containerID]), LAMBDA m :
             [b |-> m.b, err |-> m.err]))

\* Builder.handleCmd
handleCmd(b, args, heredoc) == [b |-> [b EXCEPT !.config.Cmd = args], err |-> nil]

\* Builder.handleEntrypoint
handleEntrypoint(b, args, heredoc) ==
    [b |-> [b EXCEPT !.config.Entrypoint = args], err |-> nil]

\* Builder.handleEnv
handleEnv(b, args, heredoc) ==
    IF Len(args) # 2 THEN [b |-> b, err |-> "ENV requires exactly two arguments"]
    ELSE [b |-> [b EXCEPT !.config.Env = Append(@, args[1] \o <<61>> \o args[2])],
          err |-> nil]

\* Builder.handleExpose
handleExpose(b, args, heredoc) ==
    IF Len(args) # 1 THEN [b |-> b, err |-> "EXPOSE requires exactly one argument"]
    ELSE [b |-> [b EXCEPT !.config.ExposedPorts = @ \cup {args[1]}], err |-> nil]

\* Builder.handleLabel
handleLabel(b, args, heredoc) ==
    IF Len(args) # 2 THEN [b |-> b, err |-> "LABEL requires exactly two arguments"]
    ELSE [b |-> [b EXCEPT !.config.Labels = (args[1] :> args[2]) @@ @], err |-> nil]

\* Builder.handleMaintainer
handleMaintainer(b, args, heredoc) ==
    IF Len(args) < 1 THEN [b |-> b, err |-> "MAINTAINER requires at least one argument"]
    ELSE [b |-> [b EXCEPT !.maintainer = Join(args, <<32>>)], err |-> nil]

\* Builder.handleUser
handleUser(b, args, heredoc) ==
    IF Len(args) # 1 THEN [b |-> b, err |-> "USER requires exactly one argument"]
    ELSE [b |-> [b EXCEPT !.config.User = args[1]], err |-> nil]

\* Builder.handleVolume: the volumes before an empty one are kept.
RECURSIVE handleVolumeFrom(_, _, _)
handleVolumeFrom(b, args, i) ==
    IF i > Len(args) THEN [b |-> b, err |-> nil]
    ELSE IF TrimSpace(args[i]) = << >>
    THEN [b |-> b, err |-> "volume specified can not be an empty string"]
    ELSE handleVolumeFrom([b EXCEPT !.config.Volumes = @ \cup {TrimSpace(args[i])}],
                          args, i + 1)

handleVolume(b, args, heredoc) ==
    IF Len(args) = 0 THEN [b |-> b, err |-> "VOLUME requires at least one argument"]
    ELSE handleVolumeFrom(b, args, 1)

\* Builder.handleWorkdir
handleWorkdir(b, args, heredoc) ==
    IF Len(args) # 1 THEN [b |-> b, err |-> "WORKDIR requires exactly one argument"]
    ELSE [b |-> [b EXCEPT !.config.WorkingDir =
                    IF IsAbs(args[1]) THEN args[1]
                    ELSE filepathJoin(<<<<47>>, b.config.WorkingDir, args[1]>>)],
          err |-> nil]

(***************************************************************************)
(* The build context: the directory "s", whose archive holds the entry     *)
(* "a"; the tar file "t", which holds the entry "b"; the file "j", which   *)
(* holds a block that is no header; the file "u", which is "t" cut before  *)
(* its two zero blocks; the file "v", which is "t" cut inside the body of  *)
(* its entry.  Nothing else exists.  A file is the first size bytes of     *)
(* the archive of its items.                                               *)
(***************************************************************************)
\* archive.TarResource: the tar stream of a file or directory of the context.
TarResource(srcPath) ==
    IF srcPath = <<115>> THEN [items |-> <<1>>, size |-> bLen(Stream(<<1>>)), err |-> nil]
    ELSE [items |-> << >>, size |-> 0, err |-> "no such file or directory"]

\* os.Open of a file of the context.
osOpen(srcPath) ==
    IF srcPath = <<116>> THEN [items |-> <<2>>, size |-> bLen(Stream(<<2>>)), err |-> nil]
    ELSE IF srcPath = <<106>> THEN [items |-> <<5>>, size |-> bLen(Stream(<<5>>)), err |-> nil]
    ELSE IF srcPath = <<117>>
    THEN [items |-> <<2>>, size |-> bLen(itemsBytes(<<2>>, 1)), err |-> nil]
    ELSE IF srcPath = <<118>> THEN [items |-> <<2>>, size |-> blockSize + 2, err |-> nil]
    ELSE [items |-> << >>, size |-> 0, err |-> "no such file or directory"]

\* The bytes a source of the context holds.
fileBytes(src) == bTake(Stream(src.items), src.size)

\* io.Copy(digester, src) for a source shorter than io.Copy's buffer: one Write
\* of what the source holds, none if it is empty.
ioCopy(digester, src) ==
    IF bLen(src) = 0 THEN [d |-> digester, n |-> 0, err |-> nil]
    ELSE Bind(Write(digester, src), LAMBDA w :
           [d |-> w.d, n |-> w.n,
            err |-> IF w.err # nil THEN w.err
                    ELSE IF w.n # bLen(src) THEN "short write" ELSE nil])

\* Builder.checkCopyCache: the source is digested, its digest joins the
\* uncommitted commands and the cache is probed.
checkCopyCache(b, srcPath) ==
    Bind(TarResource(srcPath), LAMBDA srcArchive :
      IF srcArchive.err # nil
      THEN [b |-> b, hit |-> FALSE, probe |-> "none", copied |-> << >>]
      ELSE Bind(ioCopy(NewDigest(Version1), fileBytes(srcArchive)), LAMBDA c :
        IF c.err # nil THEN [b |-> b, hit |-> FALSE, probe |-> "none", copied |-> <<c>>]
        ELSE Bind(probeCache([b EXCEPT !.uncommittedCommands =
                                 Append(@, <<67, 79, 80, 89, 32, 100, 105, 103, 101, 115, 116, 58, 32>>
                                           \o hexEncodeToString(Sum(c.d, << >>).sum))]),
                  LAMBDA p : [b |-> p.b, hit |-> p.hit,
                              probe |-> IF p.hit THEN "hit" ELSE "miss",
                              copied |-> <<c>>])))

\* Builder.checkExtractCache: the source is digested, its digest joins the
\* uncommitted commands and the cache is probed.
checkExtractCache(b, srcPath) ==
    Bind(osOpen(srcPath), LAMBDA srcArchive :
      IF srcArchive.err # nil
      THEN [b |-> b, hit |-> FALSE, probe |-> "none", copied |-> << >>]
      ELSE Bind(ioCopy(NewDigest(Version1), fileBytes(srcArchive)), LAMBDA c :
        IF c.err # nil THEN [b |-> b, hit |-> FALSE, probe |-> "none", copied |-> <<c>>]
        ELSE Bind(probeCache([b EXCEPT !.uncommittedCommands =
                                 Append(@, <<69, 88, 84, 82, 65, 67, 84, 32, 100, 105, 103, 101, 115, 116, 58, 32>>
                                           \o hexEncodeToString(Sum(c.d, << >>).sum))]),
                  LAMBDA p : [b |-> p.b, hit |-> p.hit,
                              probe |-> IF p.hit THEN "hit" ELSE "miss",
                              copied |-> <<c>>])))

\* Builder.copyToContainer
copyToContainer(b, srcPath, dstContainer, dstPath) ==
    Bind(call(b, "StatPath"), LAMBDA c :
      IF TarResource(srcPath).err # nil THEN [b |-> c, err |-> TarResource(srcPath).err]
      ELSE Bind(call(c, "PutArchive"), LAMBDA d :
             [b |-> d, err |-> IF fails(d, "PutArchive") THEN "request failed" ELSE nil]))

\* Builder.extractToContainer
extractToContainer(b, srcPath, dstContainer, dstDir) ==
    IF osOpen(srcPath).err # nil THEN [b |-> b, err |-> "unable to open source archive"]
    ELSE Bind(call(b, "ExtractToDir"), LAMBDA d :
           [b |-> d, err |-> IF fails(d, "ExtractToDir") THEN "request failed" ELSE nil])

\* Builder.handleCopy
handleCopy(b, args, heredoc) ==
    IF Len(args) # 2
    THEN [b |-> b, err |-> "COPY requires exactly two arguments", probe |-> "none",
          copied |-> << >>]
    ELSE Bind(checkCopyCache(b, args[1]), LAMBDA check :
      IF check.hit
      THEN [b |-> check.b, err |-> nil, probe |-> check.probe, copied |-> check.copied]
      ELSE Bind(createContainer(check.b), LAMBDA c :
        IF c.err # nil
        THEN [b |-> c.b, err |-> "unable to create container", probe |-> check.probe,
              copied |-> check.copied]
        ELSE Bind(copyToContainer(c.b, args[1], c.containerID, args[2]), LAMBDA e :
          IF e.err # nil
          THEN [b |-> e.b, err |-> "unable to copy to container", probe |-> check.probe,
                copied |-> check.copied]
          ELSE [b |-> [e.b EXCEPT !.containerID = c.containerID], err |-> nil,
                probe |-> check.probe, copied |-> check.copied])))

\* Builder.handleExtract
handleExtract(b, args, heredoc) ==
    IF Len(args) # 2
    THEN [b |-> b, err |-> "EXTRACT requires exactly two arguments", probe |-> "none",
          copied |-> << >>]
    ELSE Bind(checkExtractCache(b, args[1]), LAMBDA check :
      IF check.hit
      THEN [b |-> check.b, err |-> nil, probe |-> check.probe, copied |-> check.copied]
      ELSE Bind(createContainer(check.b), LAMBDA c :
        IF c.err # nil
        THEN [b |-> c.b, err |-> "unable to create container", probe |-> check.probe,
              copied |-> check.copied]
        ELSE Bind(extractToContainer(c.b, args[1], c.containerID, args[2]), LAMBDA e :
          IF e.err # nil
          THEN [b |-> e.b, err |-> "unable to copy to container", probe |-> check.probe,
                copied |-> check.copied]
          ELSE [b |-> [e.b EXCEPT !.containerID = c.containerID], err |-> nil,
                probe |-> check.probe, copied |-> check.copied])))

\* The calls of handleRun after the container is created, in order: the first
\* that fails ends the handler with its error.
RECURSIVE runCalls(_, _)
runCalls(b, names) ==
    IF names = << >> THEN [b |-> b, err |-> nil]
    ELSE IF names[1] = "ExitCode"
    THEN IF fails(b, "ExitCode") THEN [b |-> b, err |-> "non-zero exit code"]
         ELSE runCalls(b, Tail(names))
    ELSE Bind(call(b, names[1]), LAMBDA c :
           IF fails(c, names[1]) THEN [b |-> c, err |-> "unable to run the container"]
           ELSE runCalls(c, Tail(names)))

\* Builder.handleRun
handleRun(b, args, heredoc) ==
    IF Len(args) < 1
    THEN [b |-> b, err |-> "RUN requires at least one argument", probe |-> "none", copied |-> << >>]
    ELSE Bind(probeCache(IF heredoc # << >>
                         THEN [b EXCEPT !.out = Append(@, "Input:"),
                                        !.uncommittedCommands =
                                            Append(@, <<82, 85, 78, 32, 105, 110, 112, 117, 116, 58, 32>> \o Quote(heredoc))]
                         ELSE b), LAMBDA p :
      IF p.hit THEN [b |-> p.b, err |-> nil, probe |-> "hit", copied |-> << >>]
      ELSE Bind(createContainer(p.b), LAMBDA c :
        IF c.err # nil
        THEN [b |-> c.b, err |-> "unable to create container", probe |-> "miss", copied |-> << >>]
        ELSE Bind(runCalls(c.b, <<"AttachContainer", "StartContainer", "Hijack",
                                  "StopContainer", "InspectContainer", "ExitCode">>),
                  LAMBDA r :
          IF r.err # nil THEN [b |-> r.b, err |-> r.err, probe |-> "miss", copied |-> << >>]
          ELSE [b |-> [r.b EXCEPT !.containerID = c.containerID], err |-> nil,
                probe |-> "miss", copied |-> << >>])))

\* b.handlers[cmd], called: what the handler returns, with the outcome of its
\* cache probe ("none" if it made none) and of its io.Copy into a digester.
callHandler(cmd, b, args, heredoc) ==
    LET meta(r) == [b |-> r.b, err |-> r.err, probe |-> "none", copied |-> << >>]
    IN CASE cmd = commandsCmd -> meta(handleCmd(b, args, heredoc))
         [] cmd = commandsCopy -> handleCopy(b, args, heredoc)
         [] cmd = commandsEntrypoint -> meta(handleEntrypoint(b, args, heredoc))
         [] cmd = commandsEnv -> meta(handleEnv(b, args, heredoc))
         [] cmd = commandsExpose -> meta(handleExpose(b, args, heredoc))
         [] cmd = commandsExtract -> handleExtract(b, args, heredoc)
         [] cmd = commandsFrom -> meta(handleFrom(b, args, heredoc))
         [] cmd = commandsLabel -> meta(handleLabel(b, args, heredoc))
         [] cmd = commandsMaintainer -> meta(handleMaintainer(b, args, heredoc))
         [] cmd = commandsRun -> handleRun(b, args, heredoc)
         [] cmd = commandsUser -> meta(handleUser(b, args, heredoc))
         [] cmd = commandsVolume -> meta(handleVolume(b, args, heredoc))
         [] cmd = commandsWorkdir -> meta(handleWorkdir(b, args, heredoc))
         [] cmd = commandsAdd -> meta(handleAdd(b, args, heredoc))
         [] cmd = commandsOnbuild -> meta(handleOnbuild(b, args, heredoc))

\* Builder.dispatch, once FROM is where it must be: the handler is looked up,
\* the arguments expanded, the command noted as uncommitted, the handler
\* called, and its container committed if the command modifies the filesystem
\* and is still uncommitted.
dispatchCommand(b, cmd, args, heredoc) ==
    IF cmd \notin handlers
    THEN [b |-> b, err |-> "unknown command", handled |-> FALSE, probe |-> "none",
          copied |-> << >>]
    ELSE Bind(IF cmd \in ReplaceEnvAllowed
              THEN [i \in 1..Len(args) |-> processShellWord(args[i], b.config.Env).word]
              ELSE args, LAMBDA expanded :
      Bind(callHandler(cmd,
                       [b EXCEPT !.out = Append(@, "Step"),
                             !.uncommitted = TRUE,
                             !.uncommittedCommands =
                                 Append(@, makeCommandString(cmd, expanded))],
                   expanded, heredoc), LAMBDA h :
        IF h.err # nil
        THEN [b |-> h.b, err |-> h.err, handled |-> TRUE, probe |-> h.probe,
              copied |-> h.copied]
        ELSE IF cmd \in FilesystemModifierCommands /\ h.b.uncommitted
        THEN Bind(commit(h.b), LAMBDA m :
               [b |-> m.b,
                err |-> IF m.err # nil THEN "unable to commit container image" ELSE nil,
                handled |-> TRUE, probe |-> h.probe, copied |-> h.copied])
        ELSE [b |-> h.b, err |-> nil, handled |-> TRUE, probe |-> h.probe,
              copied |-> h.copied]))

\* dispatch without its check of where FROM is.
dispatchAnyOrder(b, stepNum, command) ==
    dispatchCommand(b, ToUpper(command.Args[1]), Tail(command.Args), command.Heredoc)

\* Builder.dispatch
dispatch(b, stepNum, command) ==
    IF (stepNum = 0) # (ToUpper(command.Args[1]) = commandsFrom)
    THEN [b |-> b, err |-> "FROM must be the first Dockerfile command",
          handled |-> FALSE, probe |-> "none", copied |-> << >>]
    ELSE dispatchCommand(b, ToUpper(command.Args[1]), Tail(command.Args), command.Heredoc)

\* Builder.Run after its loop: a container is created and committed for the
\* commands still uncommitted, unless the cache has their image.
commitTrailing(b) ==
    IF ~b.uncommitted THEN [b |-> b, err |-> nil, probe |-> "none"]
    ELSE Bind(probeCache(b), LAMBDA p :
      IF p.hit THEN [b |-> p.b, err |-> nil, probe |-> "hit"]
      ELSE Bind(createContainer(p.b), LAMBDA c :
        IF c.err # nil
        THEN [b |-> [c.b EXCEPT !.containerID = c.containerID],
              err |-> "unable to create container", probe |-> "miss"]
        ELSE Bind(commit([c.b EXCEPT !.containerID = c.containerID]), LAMBDA m :
               [b |-> m.b,
                err |-> IF m.err # nil THEN "unable to commit container image" ELSE nil,
                probe |-> "miss"])))

\* Builder.Run, its end: the built image is tagged if a repository was given.
tagBuilt(b) ==
    IF b.repo = << >> THEN [b |-> [b EXCEPT !.out = Append(@, "Successfully built")], err |-> nil]
    ELSE Bind(setTag(b, b.imageID, b.repo), LAMBDA t :
           IF t.err # nil THEN [b |-> t.b, err |-> "unable to tag built image"]
           ELSE [b |-> [t.b EXCEPT !.out = Append(@, "Successfully built")], err |-> nil])

(***************************************************************************)
(* One Dockerfile built, and built again with the cache the first build    *)
(* left, against a daemon some call to which may fail during each step     *)
(***************************************************************************)
\* The instructions Dockerfiles are made of: FROM x, from scratch,
\* ENV k "v w", CMD c, COPY s d, EXTRACT t d, EXTRACT j d, RUN sh with the
\* heredoc "h", ADD s d, FOO.
Instructions ==
    <<[Args |-> <<<<70, 82, 79, 77>>, <<120>>>>, Heredoc |-> << >>],
      [Args |-> <<<<102, 114, 111, 109>>, <<115, 99, 114, 97, 116, 99, 104>>>>, Heredoc |-> << >>],
      [Args |-> <<<<69, 78, 86>>, <<107>>, <<118, 32, 119>>>>, Heredoc |-> << >>],
      [Args |-> <<<<67, 77, 68>>, <<99>>>>, Heredoc |-> << >>],
      [Args |-> <<<<67, 79, 80, 89>>, <<115>>, <<100>>>>, Heredoc |-> << >>],
      [Args |-> <<<<69, 88, 84, 82, 65, 67, 84>>, <<116>>, <<100>>>>, Heredoc |-> << >>],
      [Args |-> <<<<69, 88, 84, 82, 65, 67, 84>>, <<106>>, <<100>>>>, Heredoc |-> << >>],
      [Args |-> <<<<82, 85, 78>>, <<115, 104>>>>, Heredoc |-> <<104>>],
      [Args |-> <<<<65, 68, 68>>, <<115>>, <<100>>>>, Heredoc |-> << >>],
      [Args |-> <<<<70, 79, 79>>>>, Heredoc |-> << >>]>>

MaxCommands == 3

Dockerfiles == {[i \in 1..Len(q) |-> Instructions[q[i]]] :
                   q \in SeqsUpTo(1..Len(Instructions), MaxCommands)}

MaxBuilds == 2

\* The calls that may fail.
Failures ==
    {"none", "InspectImage", "PullImage", "CreateContainer", "PutArchive",
     "ExtractToDir", "AttachContainer", "StartContainer", "Hijack", "StopContainer",
     "InspectContainer", "ExitCode", "Commit", "RemoveContainer", "saveCache",
     "TagImage"}

\* No step yet.  A step is: what ran (op), for which command (stepNum, cmd),
\* whether its handler was called, what its cache probe and its io.Copy into a
\* digester gave ("none" if none was made), the error it returned, and the
\* image and the uncommitted commands it started from.
NoStep ==
    [op |-> "none", stepNum |-> 0, cmd |-> << >>, handled |-> FALSE, probe |-> "none",
     copyErr |-> "none", err |-> nil, imageID |-> << >>, pending |-> << >>]

\* The Builder as NewBuilder makes it, for a Dockerfile of the context, with
\* no cache file yet; the daemon may hold the image "x".
BuildInit ==
    /\ commands \in Dockerfiles
    /\ \E images \in {{}, {imageIDOf(<<120>>)}}, repo \in {<< >>, <<114>>} :
         builder = NewBuilder([images |-> images, containers |-> {}, created |-> 0,
                         committed |-> 0, calls |-> << >>, fail |-> "none"],
                        repo, [k \in {} |-> << >>])
    /\ stepIndex = 0 /\ result = "new" /\ step = NoStep /\ builds = 1
    /\ tsd = NewDigest(Version1) /\ archive = << >> /\ pos = 0
    /\ last = NoWrite /\ restored = "none" /\ NoAttach

\* Run, up to its loop: a Dockerfile without commands is an error.
RunStart ==
    /\ result = "new"
    /\ result' = IF Len(commands) = 0 THEN "no commands found in Dockerfile" ELSE "running"
    /\ UNCHANGED <<tsd, archive, pos, last, restored, builder, commands, stepIndex, step, builds,
                 runVars>>

\* The source a COPY or EXTRACT command digests.
sourceOf(command) ==
    IF ToUpper(command.Args[1]) = commandsCopy THEN TarResource(command.Args[2])
    ELSE osOpen(command.Args[2])

\* One turn of Run's loop: dispatch of the next command.
Dispatch ==
    /\ result = "running" /\ stepIndex < Len(commands)
    /\ \E fail \in Failures :
         \E r \in {dispatch([builder EXCEPT !.client.calls = << >>, !.client.fail = fail,
                                      !.out = << >>],
                            stepIndex, commands[stepIndex + 1])} :
           /\ builder' = [r.b EXCEPT !.client.fail = "none"]
           /\ step' = [op |-> "dispatch", stepNum |-> stepIndex,
                       cmd |-> ToUpper(commands[stepIndex + 1].Args[1]),
                       handled |-> r.handled, probe |-> r.probe,
                       copyErr |-> IF r.copied = << >> THEN "none" ELSE r.copied[1].err,
                       err |-> r.err, imageID |-> builder.imageID,
                       pending |-> builder.uncommittedCommands]
           /\ result' = IF r.err # nil THEN r.err ELSE "running"
           /\ stepIndex' = IF r.err # nil THEN stepIndex ELSE stepIndex + 1
           /\ IF r.copied = << >> THEN UNCHANGED <<tsd, archive, pos, last>>
              ELSE \E src \in {sourceOf(commands[stepIndex + 1])} :
                     /\ tsd' = r.copied[1].d
                     /\ archive' = src.items
                     /\ pos' = src.size
                     /\ last' = [op |-> "Write", all |-> (r.copied[1].n = src.size),
                                 err |-> r.copied[1].err, stage |-> stageReadHeader]
           /\ UNCHANGED <<restored, commands, builds, runVars>>

\* Run after its loop.
Finish ==
    /\ result = "running" /\ stepIndex = Len(commands)
    /\ \E fail \in Failures :
         \E c \in {commitTrailing([builder EXCEPT !.client.calls = << >>, !.client.fail = fail,
                                            !.out = << >>])} :
           \E r \in {IF c.err # nil THEN [b |-> c.b, err |-> c.err] ELSE tagBuilt(c.b)} :
             /\ builder' = [r.b EXCEPT !.client.fail = "none"]
             /\ step' = [op |-> "finish", stepNum |-> stepIndex, cmd |-> << >>,
                         handled |-> FALSE, probe |-> c.probe, copyErr |-> "none",
                         err |-> r.err, imageID |-> builder.imageID,
                         pending |-> builder.uncommittedCommands]
             /\ result' = r.err
             /\ UNCHANGED <<tsd, archive, pos, last, restored, commands, stepIndex, builds,
                           runVars>>

\* The same Dockerfile is built again by a new Builder, which loads the cache
\* file the Builder before it saved.
Rebuild ==
    /\ result \notin {"new", "running"} /\ builds < MaxBuilds
    /\ builder' = NewBuilder([builder.client EXCEPT !.calls = << >>], builder.repo,
                           builder.cacheFile)
    /\ stepIndex' = 0 /\ result' = "new" /\ step' = NoStep /\ builds' = builds + 1
    /\ UNCHANGED <<tsd, archive, pos, last, restored, commands, runVars>>

BuildNext == RunStart \/ Dispatch \/ Finish \/ Rebuild

SpecBuild == BuildInit /\ [][BuildNext]_vars

(***************************************************************************)
(* C18: during Run a commit is made only right after a COPY, EXTRACT or    *)
(* RUN command whose cache probe missed, or once after the last command    *)
(* when metadata commands are still uncommitted and the cache probe        *)
(* misses; a metadata command never leads to a commit by itself.           *)
(***************************************************************************)
MetadataCommands ==
    {commandsCmd, commandsEntrypoint, commandsEnv, commandsExpose, commandsLabel,
     commandsMaintainer, commandsUser, commandsVolume, commandsWorkdir, commandsFrom}

\* How many commits the daemon was asked for during the last step.
Commits == Cardinality({i \in 1..Len(builder.client.calls) : builder.client.calls[i] = "Commit"})

\* The command string is that of one of the commands cmds.
IsOf(commandStr, cmds) ==
    \E m \in cmds : /\ Len(commandStr) > Len(m)
                    /\ SubSeq(commandStr, 1, Len(m) + 1) = m \o <<32>>

\* The commit after the last command: metadata commands were uncommitted and
\* the probe missed.
TrailingCommit ==
    /\ step.op = "finish" /\ step.stepNum = Len(commands) /\ step.probe = "miss"
    /\ step.pending # << >>
    /\ \A i \in 1..Len(step.pending) : IsOf(step.pending[i], MetadataCommands)

\* As stated: the commit of a COPY, EXTRACT or RUN follows a probe that missed.
C18_AsStated ==
    /\ Commits <= 1
    /\ Commits = 1 =>
         \/ /\ step.op = "dispatch"
            /\ step.cmd \in {commandsCopy, commandsExtract, commandsRun}
            /\ step.probe = "miss"
         \/ TrailingCommit
    /\ (step.op = "dispatch" /\ step.cmd \in MetadataCommands) => Commits = 0

\* The commit of a COPY, EXTRACT or RUN follows a probe that missed or, for
\* COPY and EXTRACT, a digest that failed, after which no probe is made.
C18_CommitOnlyWhenNeeded ==
    /\ Commits <= 1
    /\ Commits = 1 =>
         \/ /\ step.op = "dispatch"
            /\ step.cmd \in {commandsCopy, commandsExtract, commandsRun}
            /\ \/ step.probe = "miss"
               \/ /\ step.probe = "none"
                  /\ step.cmd \in {commandsCopy, commandsExtract}
                  /\ step.copyErr \notin {"none", nil}
         \/ TrailingCommit
    /\ (step.op = "dispatch" /\ step.cmd \in MetadataCommands) => Commits = 0
    /\ (step.op = "dispatch" /\ step.probe = "hit") => Commits = 0

C18_Witness ==
    /\ TrailingCommit /\ Commits = 1 /\ step.err = nil
    /\ Len(step.pending) = 1 /\ Len(commands) = 3
    /\ ToUpper(commands[2].Args[1]) = commandsRun

(***************************************************************************)
(* C19: FROM must be the first command and only the first: when the first  *)
(* command is not FROM, or a later one is FROM, Run returns an error; the  *)
(* handler of that command is not called, no call is made for it and no    *)
(* later command is run.                                                   *)
(***************************************************************************)
C19_FromFirstOnly ==
    /\ (step.op = "dispatch" /\ (step.stepNum = 0) # (step.cmd = commandsFrom)) =>
          /\ ~step.handled
          /\ step.err = "FROM must be the first Dockerfile command"
          /\ result = step.err
          /\ stepIndex = step.stepNum
          /\ builder.client.calls = << >>
          /\ builder.imageID = step.imageID
          /\ builder.uncommittedCommands = step.pending
    /\ result = nil =>
          \A i \in 1..Len(commands) :
             (i = 1) = (ToUpper(commands[i].Args[1]) = commandsFrom)

C19_Witness ==
    /\ step.op = "dispatch" /\ step.stepNum = 2 /\ step.cmd = commandsFrom
    /\ commands[3].Args[1] # commandsFrom
    /\ result = "FROM must be the first Dockerfile command"

(***************************************************************************)
(* C20: when the cache probe of a COPY, EXTRACT or RUN command hits, no    *)
(* container is created, nothing is copied, extracted or run, no commit is *)
(* made for the command; the Builder's image is the cached one, which the  *)
(* daemon holds, uncommitted is false and no command is uncommitted.       *)
(***************************************************************************)
C20_HitSkipsTheWork ==
    (/\ step.op = "dispatch"
     /\ step.cmd \in {commandsCopy, commandsExtract, commandsRun}
     /\ step.probe = "hit") =>
        /\ step.err = nil
        /\ \A i \in 1..Len(builder.client.calls) : builder.client.calls[i] = "InspectImage"
        /\ builder.containerID = << >>
        /\ \E key \in DOMAIN builder.cache : builder.cache[key] = builder.imageID
        /\ builder.imageID \in builder.client.images
        /\ ~builder.uncommitted
        /\ builder.uncommittedCommands = << >>

C20_Witness ==
    /\ step.op = "dispatch" /\ step.cmd = commandsExtract /\ step.probe = "hit"
    /\ builds = 2 /\ step.stepNum = 2
    /\ builder.imageID # step.imageID

(***************************************************************************)
(* Dockerfiles of metadata commands given no, one or two arguments, after  *)
(* a FROM: the commands the README documents as requiring exactly one      *)
(* argument.                                                               *)
(***************************************************************************)
\* The commands README.md documents with "Requires exactly 1 argument".
OneArgumentCommands ==
    {commandsExpose, commandsFrom, commandsMaintainer, commandsUser, commandsVolume,
     commandsWorkdir}

\* The argument lists the commands are given: none, "a", "a b", and "a" with
\* a blank second argument.
ArgLists == {<< >>, <<<<97>>>>, <<<<97>>, <<98>>>>, <<<<97>>, <<32>>>>}

ArgInstructions ==
    {[Args |-> <<c>> \o a, Heredoc |-> << >>] : c \in OneArgumentCommands, a \in ArgLists}

MaxArgCommands == 2

\* A FROM with any of the argument lists alone, or FROM x followed by up to
\* MaxArgCommands of the instructions.
ArgDockerfiles ==
    {<<[Args |-> <<commandsFrom>> \o a, Heredoc |-> << >>]>> : a \in ArgLists}
    \cup {<<Instructions[1]>> \o q : q \in SeqsUpTo(ArgInstructions, MaxArgCommands)}

ArgInit ==
    /\ commands \in ArgDockerfiles
    /\ \E images \in {{}, {imageIDOf(<<120>>)}} :
         builder = NewBuilder([images |-> images, containers |-> {}, created |-> 0,
                         committed |-> 0, calls |-> << >>, fail |-> "none"],
                        << >>, [k \in {} |-> << >>])
    /\ stepIndex = 0 /\ result = "new" /\ step = NoStep /\ builds = 1
    /\ tsd = NewDigest(Version1) /\ archive = << >> /\ pos = 0
    /\ last = NoWrite /\ restored = "none" /\ NoAttach

SpecArgs == ArgInit /\ [][BuildNext]_vars

(***************************************************************************)
(* C21: each of EXPOSE, FROM, MAINTAINER, USER, VOLUME and WORKDIR, given  *)
(* a number of arguments other than one, returns an error and leaves the   *)
(* config and the maintainer of the Builder as they were.                  *)
(***************************************************************************)
\* The next command of Run's loop is one of the commands, with a number of
\* arguments other than one.
WrongArgumentCount ==
    /\ result = "running" /\ stepIndex < Len(commands)
    /\ ToUpper(commands[stepIndex + 1].Args[1]) \in OneArgumentCommands
    /\ Len(commands[stepIndex + 1].Args) # 2

C21_AsStated ==
    [][WrongArgumentCount =>
         /\ step'.op = "dispatch" /\ step'.err # nil /\ result' = step'.err
         /\ builder'.config = builder.config
         /\ builder'.maintainer = builder.maintainer]_vars

(***************************************************************************)
(* C22: between Resets the stage changes only from readHeader to           *)
(* readEntry, from readEntry to skipPadding, from skipPadding to           *)
(* readHeader, or from any of the three to finished; a Write never takes   *)
(* it backward, never from readHeader to skipPadding, and never out of     *)
(* finished; Sum and a checkpoint leave it as it is.                       *)
(***************************************************************************)
StageEdge(a, b) ==
    \/ a = b
    \/ a = stageReadHeader /\ b = stageReadEntry
    \/ a = stageReadEntry /\ b = stageSkipPadding
    \/ a = stageSkipPadding /\ b = stageReadHeader
    \/ a \in {stageReadHeader, stageReadEntry, stageSkipPadding} /\ b = stageFinished

\* The bytes the caller writes in the step.
Written == bSub(Input(archive), pos + 1, pos')

C22_StageOrder ==
    [][IF last'.op = "Write" /\ pos' >= pos
       THEN \E stages \in {WriteStages(tsd, Written)} :
              /\ stages[1] = tsd.digestStage
              /\ stages[Len(stages)] = tsd'.digestStage
              /\ \A i \in 1..(Len(stages) - 1) : StageEdge(stages[i], stages[i + 1])
       ELSE tsd'.digestStage = tsd.digestStage \/ tsd' = Reset(tsd)]_vars

\* A Write that found the session waiting for a header and left it in the
\* padding of its second entry.
C22_Witness ==
    /\ last.op = "Write" /\ last.stage = stageReadHeader /\ last.err = nil
    /\ tsd.digestStage = stageSkipPadding /\ tsd.fileCounter = 1
    /\ bLen(tsd.headerBuffer) > 0


(***************************************************************************)
(* C23: in every state reached by Writes from a new or Reset session the   *)
(* file counter is the number of completed entries and never decreases,    *)
(* the positions of the completed entries are 0..n-1, each once, and the   *)
(* k-th entry completed has position k-1.                                  *)
(***************************************************************************)
\* The counter counts the sums; every position below it is that of one sum,
\* the sum of the archive's entry at that place.
CountedInOrder(d) ==
    /\ d.fileCounter = Len(d.sums)
    /\ \A k \in 0..(Len(d.sums) - 1) :
         /\ Cardinality({i \in 1..Len(d.sums) : d.sums[i].pos = k}) = 1
         /\ \A i \in 1..Len(d.sums) :
              d.sums[i].pos = k => d.sums[i].name = EntryName(archive, k + 1)

C23_CounterAndPositions ==
    [][/\ CountedInOrder(tsd')
       /\ \/ tsd' = Reset(tsd)
          \/ /\ tsd'.fileCounter >= tsd.fileCounter
             /\ Entries(tsd) \subseteq Entries(tsd')
             /\ \A e \in Entries(tsd') \ Entries(tsd) : e.pos >= tsd.fileCounter]_vars

\* Two entries completed, the second of them first in the list of sums.
C23_Witness ==
    /\ last.op = "Write" /\ tsd.fileCounter = 2 /\ tsd.sums[1].pos = 1
    /\ restored = "none"

(***************************************************************************)
(* One Digest fed, in pieces, two entries and then a block that is no      *)
(* header                                                                  *)
(***************************************************************************)
\* Two of the entries "a", "b", "c", then the junk block.
BrokenArchives == {<<i, j, 5>> : i, j \in {1, 2, 7}}

BrokenInit ==
    /\ archive \in BrokenArchives
    /\ \E version \in Versions : tsd = NewDigest(version)
    /\ pos = 0
    /\ last = NoWrite
    /\ restored = "none"
    /\ NoBuild

SpecBroken == BrokenInit /\ [][Next]_vars

(***************************************************************************)
(* C24, as stated: once the session is finished, no Write, Sum, SumString  *)
(* or State changes the list of completed entries: their names, sums and   *)
(* positions, and their order in the list.  (Label returns a string and    *)
(* has no session to change.)                                              *)
(***************************************************************************)
\* The session after one more call: a Write of nothing, of the trailer, of
\* the end of an archive or of an entry; Sum; SumString; State.
AfterCall(d) ==
    {Write(d, p).d : p \in {<< >>, Trailer, archiveEndBlock, itemBytes(Items[1])}}
    \cup {Sum(d, << >>).d, SumString(d, << >>).d, State(d).d}

NextPieces ==
    {bSub(Input(archive), pos + 1, q) :
        q \in ChunkEnds(pos, bLen(Stream(archive)), bLen(Input(archive)))}

C25_WriteTakesAll ==
    /\ last.op = "Write" => last.all
    /\ \A p \in NextPieces : Write(tsd, p).n = bLen(p)

\* A session waiting for the rest of an entry's padding, with an error-free
\* Write behind it and pieces of several lengths, none among them, before it.
C25_Witness ==
    /\ tsd.digestStage = stageSkipPadding /\ last.op = "Write" /\ last.all
    /\ << >> \in NextPieces /\ Cardinality({bLen(p) : p \in NextPieces}) >= 3
    /\ \E p \in NextPieces : Write(tsd, p).d.digestStage = stageReadHeader

(***************************************************************************)
(* C26: a Write to a session in stage readHeader after which fewer than    *)
(* 1024 bytes are buffered, or the buffered bytes are only the beginning   *)
(* of an entry's header, returns no error, leaves the stage readHeader,    *)
(* completes no entry and keeps every buffered byte in the header buffer.  *)
(***************************************************************************)
\* How many bytes the header of an entry takes: its block, after the block,
\* the body and the padding of its extended header if it has attributes.
HeaderLen(it) ==
    IF it.xattrs = << >> THEN blockSize
    ELSE 2 * blockSize + Len(it.xattrs) + computeBlockPadding(Len(it.xattrs))

\* The bytes are the beginning, and not the whole, of the header of the
\* entry that follows the completed ones.
IncompleteHeader(buffered) ==
    /\ Len(tsd.sums) < Len(archive)
    /\ Items[archive[Len(tsd.sums) + 1]].kind = "file"
    /\ \E it \in {Items[archive[Len(tsd.sums) + 1]]} :
         /\ bLen(buffered) < HeaderLen(it)
         /\ buffered = bTake(entryBytes(it), bLen(buffered))

C26_ShortHeaderWaits ==
    tsd.digestStage = stageReadHeader =>
        \A p \in NextPieces :
            \E buffered \in {bCat(tsd.headerBuffer, p)} :
                (bLen(buffered) < 2 * blockSize \/ IncompleteHeader(buffered)) =>
                    \E w \in {Write(tsd, p)} :
                        /\ w.err = nil /\ w.d.err = nil
                        /\ w.d.digestStage = stageReadHeader
                        /\ w.d.sums = tsd.sums /\ w.d.fileCounter = tsd.fileCounter
                        /\ w.d.headerBuffer = buffered

\* Two blocks and more are buffered of the header of an entry with an
\* extended attribute, after a Write that returned no error.
C26_Witness ==
    /\ tsd.digestStage = stageReadHeader /\ last.op = "Write" /\ last.err = nil
    /\ bLen(tsd.headerBuffer) > 2 * blockSize
    /\ IncompleteHeader(tsd.headerBuffer)

(***************************************************************************)
(* C27: a session becomes finished without an error only in a Write, from  *)
(* stage readHeader, with a header buffer that begins with 1024 zero       *)
(* bytes: never from within the body or the padding of an entry; and one   *)
(* zero block followed by fewer than 512 bytes does not finish it.         *)
(***************************************************************************)
\* The stage a Write was in when the stage became finished.
StageBeforeFinished(stages) ==
    stages[(CHOOSE i \in 2..Len(stages) :
               stages[i] = stageFinished /\ \A j \in 1..(i - 1) : stages[j] # stageFinished)
           - 1]

C27_FinishedAtEndBlocks ==
    [][/\ (~Finished(tsd) /\ Finished(tsd') /\ tsd'.err = nil) =>
            /\ last'.op = "Write" /\ pos' >= pos
            /\ \E stages \in {WriteStages(tsd, Written)} :
                 StageBeforeFinished(stages) = stageReadHeader
            /\ bLen(tsd'.headerBuffer) >= 2 * blockSize
            /\ bTake(tsd'.headerBuffer, 2 * blockSize) = archiveEndBlock
       /\ (/\ tsd.digestStage = stageReadHeader /\ last'.op = "Write" /\ pos' >= pos
           /\ \E buffered \in {bCat(tsd.headerBuffer, Written)} :
                /\ bLen(buffered) >= blockSize /\ bLen(buffered) < 2 * blockSize
                /\ bIsZero(bTake(buffered, blockSize)))
            => ~Finished(tsd')]_vars

\* A session finished without error by a Write that found it in the padding
\* of its second entry.
C27_Witness ==
    /\ Finished(tsd) /\ tsd.err = nil /\ restored = "none"
    /\ last.op = "Write" /\ last.stage = stageSkipPadding /\ Len(tsd.sums) = 2

\* One zero block and some bytes of the next are buffered, and the session
\* has not finished.
C27_ZeroBlockWaits ==
    /\ tsd.digestStage = stageReadHeader /\ last.op = "Write"
    /\ bLen(tsd.headerBuffer) > blockSize
    /\ bIsZero(bTake(tsd.headerBuffer, blockSize))

(***************************************************************************)
(* C28: the sum of every completed entry is the hash, from the empty       *)
(* state, of the selected header fields followed by the bytes of the body, *)
(* as many as the header declares, and of nothing else, however the        *)
(* stream was cut into Writes; between entries the entry hash is empty.    *)
(***************************************************************************)
\* The hash of the entry, all its bytes given to a new hash in one Write.
ExpectedSum(it, selector) ==
    LET header == [Name |-> it.name, Size |-> it.size, Typeflag |-> it.typeflag,
                   Xattrs |-> it.xattrs]
        elems == selectHeaders(selector, header)
        RECURSIVE fields(_)
        fields(i) == IF i > Len(elems) THEN << >>
                     ELSE elems[i][1] \o elems[i][2] \o fields(i + 1)
        body == [k \in 1..it.size |-> it.fill]
    IN hexEncodeToString(sha256Sum(sha256Write(sha256New, fields(1) \o body)))

C28_EntryHashInput ==
    /\ \A i \in 1..Len(tsd.sums) :
         /\ tsd.sums[i].pos + 1 \in 1..Len(archive)
         /\ Items[archive[tsd.sums[i].pos + 1]].kind = "file"
         /\ tsd.sums[i].sum =
               ExpectedSum(Items[archive[tsd.sums[i].pos + 1]], tsd.headerSelector)
    /\ tsd.digestStage = stageReadHeader => tsd.entryHash = sha256New

\* The entry "b" of 513 bytes and the entry "a" with its extended attribute,
\* both completed, the last Write having begun in padding.
C28_Witness ==
    /\ archive = <<2, 3>> /\ Len(tsd.sums) = 2 /\ tsd.version = Version1
    /\ last.op = "Write" /\ last.stage = stageSkipPadding

(***************************************************************************)
(* C29: computeBlockPadding(s) is (-s) mod 512 for every size s >= 0: it   *)
(* lies in 0..511, s plus it is a multiple of 512, and it is 0 exactly     *)
(* when s is one; in every reachable state the pending padding lies in     *)
(* 0..511, and within an entry it changes only in skipPadding, downward.   *)
(***************************************************************************)
MaxSize == 2048

NameItems == {1, 4, 11, 12}

MaxNameEntries == 3

NameArchives == SeqsUpTo(NameItems, MaxNameEntries)

NameInit ==
    /\ archive \in NameArchives
    /\ \E version \in Versions : tsd = NewDigest(version)
    /\ pos = 0
    /\ last = NoWrite
    /\ restored = "none"
    /\ NoBuild

SpecNames == NameInit /\ [][OrderNext]_vars

\* The name in the header of the entry a sum was made of.
HeaderName(fi) == Items[archive[fi.pos + 1]].name

\* h without "./" in front, if it has it.
WithoutDotSlash(h) ==
    IF Len(h) >= 2 /\ h[1] = 46 /\ h[2] = 47 THEN SubSeq(h, 3, Len(h)) ELSE h

EndsInSlash(s) == s # << >> /\ s[Len(s)] = 47

\* "./a/" and "a" are one name to the tie-break: of two sums made of entries
\* with these names both are under the same name, the list has duplicates,
\* and Less puts the one of the earlier entry first.
SameNameTieBreak ==
    \A i, j \in 1..Len(tsd.sums) :
        (HeaderName(tsd.sums[i]) = <<46, 47, 97, 47>> /\ HeaderName(tsd.sums[j]) = <<97>>) =>
            /\ tsd.sums[i].name = tsd.sums[j].name
            /\ GetDuplicatePaths(tsd.sums) # << >>
            /\ bySumLess(tsd.sums, GetDuplicatePaths(tsd.sums), i - 1, j - 1)
                 = (tsd.sums[i].pos < tsd.sums[j].pos)

(***************************************************************************)
(* C30, as stated: the name recorded for a completed entry is the header   *)
(* name without one leading "./" and without any trailing "/", so that it  *)
(* never ends in "/"; and "./a/" and "a" are one name to the tie-break.    *)
(***************************************************************************)
C30_AsStated ==
    /\ \A i \in 1..Len(tsd.sums) :
         /\ ~EndsInSlash(tsd.sums[i].name)
         /\ \E k \in 0..nameFieldLen :
              WithoutDotSlash(HeaderName(tsd.sums[i])) = tsd.sums[i].name \o [n \in 1..k |-> 47]
    /\ SameNameTieBreak

(***************************************************************************)
(* C30, amended: the name recorded for a completed entry is the header     *)
(* name without one leading "./" and without one trailing "/"; it ends in  *)
(* "/" exactly when what follows the "./" ends in "//"; and "./a/" and "a" *)
(* are one name to the tie-break.                                          *)
(***************************************************************************)
C30_OneSlashTrimmed ==
    /\ \A i \in 1..Len(tsd.sums) :
         \E m \in {WithoutDotSlash(HeaderName(tsd.sums[i]))} :
            /\ IF EndsInSlash(m) THEN m = Append(tsd.sums[i].name, 47)
               ELSE m = tsd.sums[i].name
            /\ EndsInSlash(tsd.sums[i].name) = (Len(m) >= 2 /\ m[Len(m)] = 47 /\ m[Len(m) - 1] = 47)
    /\ SameNameTieBreak

\* "a", "./a/" and "a//" completed: two sums under the name "a", one under "a/".
C30_Witness ==
    /\ Finished(tsd) /\ tsd.err = nil /\ Len(tsd.sums) = 3
    /\ {archive[k] : k \in 1..Len(archive)} = {1, 4, 11}
    /\ Cardinality({i \in 1..3 : tsd.sums[i].name = <<97>>}) = 2
    /\ \E i \in 1..3 : tsd.sums[i].name = <<97, 47>>

(***************************************************************************)
(* Builds whose COPY and EXTRACT commands read every source of the         *)
(* context: the directory, the tar file, the file that is no tar and the   *)
(* two cut tar files.                                                      *)
(***************************************************************************)
\* COPY s d, EXTRACT t d, EXTRACT j d, EXTRACT u d, EXTRACT v d, CMD c.
SourceInstructions ==
    {Instructions[5], Instructions[6], Instructions[7], Instructions[4],
     [Args |-> <<commandsExtract, <<117>>, <<100>>>>, Heredoc |-> << >>],
     [Args |-> <<commandsExtract, <<118>>, <<100>>>>, Heredoc |-> << >>]}

MaxSourceCommands == 2

\* FROM x followed by up to MaxSourceCommands of the instructions.
SourceDockerfiles ==
    {<<Instructions[1]>> \o q : q \in SeqsUpTo(SourceInstructions, MaxSourceCommands)}

SourceInit ==
    /\ commands \in SourceDockerfiles
    /\ builder = NewBuilder([images |-> {imageIDOf(<<120>>)}, containers |-> {},
                             created |-> 0, committed |-> 0, calls |-> << >>,
                             fail |-> "none"],
                            << >>, [k \in {} |-> << >>])
    /\ stepIndex = 0 /\ result = "new" /\ step = NoStep /\ builds = 1
    /\ tsd = NewDigest(Version1) /\ archive = << >> /\ pos = 0
    /\ last = NoWrite /\ restored = "none" /\ NoAttach

SpecSources == SourceInit /\ [][BuildNext]_vars

(***************************************************************************)
(* C31: a COPY or EXTRACT step appends the digest of its source to the     *)
(* uncommitted commands and probes the cache with it only when the digest  *)
(* session finished without error; for a source that is cut (no end of     *)
(* archive seen) or is no tar no digest is appended and no hit reported.   *)
(***************************************************************************)
\* The last step was a COPY or EXTRACT that wrote its source to a digester.
DigestedSource ==
    /\ step.op = "dispatch" /\ step.cmd \in {commandsCopy, commandsExtract}
    /\ step.copyErr # "none"

\* The last step appended a digest and probed the cache with it.
DigestUsed == DigestedSource /\ step.probe # "none"

C31_AsStated == DigestUsed => Finished(tsd) /\ tsd.err = nil /\ step.copyErr = nil

\* What the code does check: a source whose Write returned an error gives no
\* digest and no probe, and a whole archive gives both.
C31_ErrorNotUsed ==
    DigestedSource =>
      /\ step.copyErr # nil => step.probe = "none"
      /\ step.copyErr = nil => step.probe # "none"
      /\ Finished(tsd) /\ tsd.err = nil => step.probe # "none"

\* A cut archive, its end never seen, whose digest hits the cache.
C31_NoHitOnCutArchive ==
    ~(DigestUsed /\ ~Finished(tsd) /\ step.probe = "hit")

(***************************************************************************)
(* One Digest that is written an archive in pieces and, at any moment,     *)
(* restored from a whole checkpoint of the same archive: the target of     *)
(* the Restore is new, holds buffered bytes, holds entries, or was         *)
(* finished by the end of the archive or by an error.                      *)
(***************************************************************************)
\* "b"; "a" then a block that is no header.
TargetArchives == {<<2>>, <<1, 5>>}

TargetInit ==
    /\ archive \in TargetArchives
    /\ \E version \in Versions : tsd = NewDigest(version)
    /\ pos = 0
    /\ last = NoWrite
    /\ restored = "none"
    /\ NoBuild

\* State() of a session of the version that was written n bytes of the
\* archive, with the error State returned.
CheckpointAt(version, n) == State(Write(NewDigest(version), bTake(Stream(archive), n)).d)

\* The caller restores its session, in whatever state, from a checkpoint
\* State gave of a session of either version, and goes on from there.
DoRestoreWhole ==
    /\ restored = "none"
    /\ \E version \in Versions, n \in CheckpointEnds(archive) :
         \E c \in {CheckpointAt(version, n)} :
           /\ c.err = nil
           /\ \E r \in {Restore(tsd, c.state)} :
                /\ tsd' = r.d
                /\ restored' = r.err
                /\ last' = [op |-> "Restore", all |-> TRUE, err |-> r.err,
                            stage |-> tsd.digestStage, target |-> tsd.version,
                            version |-> version]
                /\ pos' = n
                /\ UNCHANGED <<archive, buildVars>>

TargetNext == DoWrite \/ DoRestoreWhole

SpecTargets == TargetInit /\ [][TargetNext]_vars

(***************************************************************************)
(* C32: after a Restore that returned nil the session - its stage, Len,    *)
(* header buffer, pending padding, completed entries, recorded error and   *)
(* what it does with the bytes that follow - is what the checkpoint says,  *)
(* whatever the target had been written before: the same as after the      *)
(* Restore into a session that holds nothing.                              *)
(***************************************************************************)
\* What a caller can see of a session, and what the session makes of the
\* bytes rest.
ObservedOf(d, rest) ==
    Bind(Write(d, rest), LAMBDA w :
      [stage |-> d.digestStage, len |-> d.bytesWritten, header |-> d.headerBuffer,
       pad |-> d.pad, sums |-> d.sums, err |-> d.err, label |-> Label(d),
       stateErr |-> State(d).err,
       n |-> w.n, writeErr |-> w.err, sum |-> SumString(w.d, << >>).str])

\* The step is a Restore that returned nil.
RestoredWhole == restored = "none" /\ restored' = nil /\ last'.op = "Restore"

C32_AsStated ==
    [][RestoredWhole =>
         \E c \in {CheckpointAt(last'.version, pos')},
            rest \in {bDrop(Stream(archive), pos')} :
           \E f \in {Restore(Reset(tsd), c.state)} :
             /\ f.err = nil
             /\ ObservedOf(tsd', rest) = ObservedOf(f.d, rest)]_vars

\* The same, for a target that holds no buffered bytes and no error.
C32_CleanTarget ==
    [][RestoredWhole /\ bLen(tsd.headerBuffer) = 0 /\ bLen(tsd.currentBuffer) = 0
                     /\ tsd.err = nil =>
         \E c \in {CheckpointAt(last'.version, pos')},
            rest \in {bDrop(Stream(archive), pos')} :
           \E f \in {Restore(Reset(tsd), c.state)} :
             /\ f.err = nil
             /\ ObservedOf(tsd', rest) = ObservedOf(f.d, rest)]_vars

(***************************************************************************)
(* C33: between Writes the entry buffer, which State leaves out, is empty  *)
(* whenever the stage is readEntry or skipPadding, and a session that      *)
(* rests in skipPadding has padding left to skip; so what State writes     *)
(* determines what the session does with the bytes that follow.            *)
(***************************************************************************)
\* What the session d makes of the bytes rest.
Future(d, rest) ==
    Bind(Write(d, rest), LAMBDA w :
      [n |-> w.n, err |-> w.err, stage |-> w.d.digestStage, len |-> w.d.bytesWritten,
       sum |-> SumString(w.d, << >>).str])

C33_StateIsComplete ==
    /\ tsd.digestStage \in {stageReadEntry, stageSkipPadding} =>
         bLen(tsd.currentBuffer) = 0
    /\ tsd.digestStage = stageSkipPadding => tsd.pad > 0
    /\ tsd.err = nil =>
         \E s \in {State(tsd)}, rest \in {bDrop(Input(archive), pos)} :
           \E r \in {Restore(NewDigest(tsd.version), s.state)} :
             /\ s.err = nil /\ r.err = nil
             /\ Future(r.d, rest) = Future(tsd, rest)

\* A session that rests inside the padding of an entry, and one that rests
\* inside the body of an entry.
C33_Witness ==
    /\ last.op = "Write" /\ tsd.digestStage = stageSkipPadding
    /\ tsd.pad > 0 /\ tsd.pad < blockSize - 1 /\ pos < bLen(Stream(archive))

C33_WitnessBody ==
    /\ last.op = "Write" /\ tsd.digestStage = stageReadEntry
    /\ tsd.tarReader.nb > 0 /\ pos < bLen(Stream(archive))

(***************************************************************************)
(* C34: whenever Run is between two instructions - before the first        *)
(* dispatch and after every dispatch that returned nil - uncommitted is    *)
(* true exactly when uncommittedCommands is not empty and containerID is   *)
(* empty; after a COPY, EXTRACT or RUN uncommitted is false and            *)
(* uncommittedCommands is empty.                                           *)
(***************************************************************************)
C34_BoundaryState ==
    result = "running" =>
      /\ builder.uncommitted <=> builder.uncommittedCommands # << >>
      /\ builder.containerID = << >>
      /\ step.op = "dispatch" /\ step.cmd \in {commandsCopy, commandsExtract, commandsRun} =>
           /\ step.err = nil
           /\ ~builder.uncommitted /\ builder.uncommittedCommands = << >>

\* After a RUN that missed the cache, ran its container and committed it,
\* with metadata commands uncommitted before it.
C34_Witness ==
    /\ result = "running" /\ step.op = "dispatch" /\ step.cmd = commandsRun
    /\ step.probe = "miss" /\ Commits = 1 /\ Len(step.pending) >= 2
    /\ ~builder.uncommitted /\ builder.containerID = << >>

\* After a metadata command: uncommitted, with its command string pending.
C34_WitnessMetadata ==
    /\ result = "running" /\ step.op = "dispatch" /\ step.cmd = commandsEnv
    /\ builder.uncommitted /\ Len(builder.uncommittedCommands) = 2

(***************************************************************************)
(* A build that succeeded is run again, unchanged, by a new Builder that   *)
(* loads the cache file the first one saved.                               *)
(***************************************************************************)
\* ENV k "v w", CMD c, COPY s d, EXTRACT t d, EXTRACT j d, RUN sh with the
\* heredoc "h".
RerunInstructions == {Instructions[i] : i \in 3..8}

MaxRerunCommands == 2

\* FROM x or from scratch, followed by up to MaxRerunCommands instructions.
RerunDockerfiles ==
    {<<Instructions[f]>> \o q : f \in {1, 2},
                                q \in SeqsUpTo(RerunInstructions, MaxRerunCommands)}

RerunInit ==
    /\ commands \in RerunDockerfiles
    /\ \E images \in {{}, {imageIDOf(<<120>>)}} :
         builder = NewBuilder([images |-> images, containers |-> {}, created |-> 0,
                         committed |-> 0, calls |-> << >>, fail |-> "none"],
                        << >>, [k \in {} |-> << >>])
    /\ stepIndex = 0 /\ result = "new" /\ step = NoStep /\ builds = 1
    /\ tsd = NewDigest(Version1) /\ archive = << >> /\ pos = 0
    /\ last = NoWrite /\ restored = "none" /\ NoAttach

\* The Dockerfile is built again after a build that returned nil.
Rerun == result = nil /\ Rebuild

RerunNext == RunStart \/ Dispatch \/ Finish \/ Rerun

SpecRerun == RerunInit /\ [][RerunNext]_vars

(***************************************************************************)
(* C35, as stated: commit records the image under the key probeCache       *)
(* looked up, so in the second run of an unchanged build, the daemon       *)
(* still holding the images, every step that would commit - a COPY,        *)
(* EXTRACT or RUN, and the end of Run with metadata commands pending -     *)
(* hits the cache and no commit is made.                                   *)
(***************************************************************************)
\* The last step is one that commits unless the cache is hit.
CommittingStep ==
    \/ step.op = "dispatch" /\ step.handled
         /\ step.cmd \in {commandsCopy, commandsExtract, commandsRun}
    \/ step.op = "finish" /\ step.pending # << >>

\* The image a probe of the last step found in the cache was held by the
\* daemon: no InspectImage of probeCache failed.
ImagesPresent ==
    ~(/\ step.probe # "hit"
      /\ Len(builder.client.calls) > 0 /\ builder.client.calls[1] = "InspectImage")

\* Every image the daemon committed is recorded in the cache: no step of this
\* run has committed anew what the first run had committed.
Unchanged ==
    \A n \in 1..builder.client.committed :
      \E k \in DOMAIN builder.cache : builder.cache[k] = committedID(n)

\* A step of the second run, taken while the build is unchanged.
RerunStep == builds = 2 /\ result = "running" /\ Unchanged /\ step' # step

C35_AsStated ==
    [][RerunStep /\ CommittingStep' /\ ImagesPresent' =>
         (step.probe = "hit")' /\ (Commits = 0)']_vars

(***************************************************************************)
(* C35, amended: the same, as long as the source of every COPY and EXTRACT *)
(* up to the step could be digested; a COPY or EXTRACT whose source the    *)
(* digester rejects makes no probe at all, in either run.                  *)
(***************************************************************************)
\* The command is no COPY or EXTRACT, or io.Copy of its source into a digester
\* returns nil.
Digestable(command) ==
    ToUpper(command.Args[1]) \in {commandsCopy, commandsExtract} =>
      /\ sourceOf(command).err = nil
      /\ ioCopy(NewDigest(Version1), fileBytes(sourceOf(command))).err = nil

\* How many commands Run has dispatched, the one of the last step included.
Dispatched == IF step.op = "finish" THEN Len(commands) ELSE step.stepNum + 1

C35_RerunHits ==
    [][/\ RerunStep /\ CommittingStep' /\ ImagesPresent'
            /\ (\A i \in 1..Len(commands) : i <= Dispatched' => Digestable(commands[i]))
          => (step.probe = "hit")' /\ (Commits = 0)'
       /\ step'.op = "dispatch" /\ step'.handled /\ step' # step
            /\ step'.cmd \in {commandsCopy, commandsExtract}
            /\ ~Digestable(commands[step'.stepNum + 1])
          => step'.probe = "none"]_vars

\* The second run of FROM, ENV, RUN: the RUN hits the cache.
C35_Witness ==
    /\ builds = 2 /\ step.op = "dispatch" /\ step.cmd = commandsRun
    /\ step.probe = "hit" /\ Commits = 0 /\ Len(step.pending) = 2

\* The second run of a build that ends with a metadata command: the probe
\* at the end of Run hits.
C35_WitnessTrailing ==
    /\ builds = 2 /\ step.op = "finish" /\ step.pending # << >>
    /\ step.probe = "hit" /\ Commits = 0 /\ result = nil

(***************************************************************************)
(* The attach of a RUN: handleRun from its call of attachContainer on,     *)
(* the goroutine that calls hijack, the two copiers hijack starts and the  *)
(* goroutine that calls stdcopy.StdCopy on the pipe, against a daemon      *)
(* that sends up to MaxFrames frames of output and then closes the         *)
(* stream, or breaks the connection at any moment.                         *)
(***************************************************************************)
MaxFrames == 2

\* make(chan ..., 1): the capacity of each of the four channels.
capacityUnbuffered(ch) == 0

capacity(ch) == 1

\* The cases of attachContainer's select that can proceed; select takes any.
selectWithDefault(c) == {"hijackStarted", "hijackErr"}

selectReady(c) == {ch \in {"hijackStarted", "hijackErr"} : c[ch] # << >>}

\* The errors hijack returns before it signals that it has started.
EarlyErrors ==
    {"unable to create hijack request", "unable to parse daemon URL",
     "unable to dial for hijack"}

restVars ==
    <<tsd, archive, pos, last, restored, builder, commands, stepIndex, result, step,
      builds, tokens>>

\* handleRun has created its container and is about to attach to it.
HijackInit ==
    /\ pc = [g \in Goroutines |-> IF g = "handleRun" THEN "attachContainer" ELSE "idle"]
    /\ chans = [c \in Channels |-> << >>]
    /\ \E frames \in 0..MaxFrames :
         attach = [started |-> FALSE, frames |-> frames, conn |-> "none",
                   writeClosed |-> FALSE, pipeReader |-> "open",
                   copied |-> 0, hijackRet |-> "none", outputRet |-> "none",
                   ret |-> "none", sent |-> [c \in Channels |-> 0]]
    /\ tokens = << >>
    /\ tsd = NewDigest(Version1) /\ archive = << >> /\ pos = 0
    /\ last = NoWrite /\ restored = "none"
    /\ builder = << >> /\ commands = << >> /\ stepIndex = 0
    /\ result = "none" /\ step = << >> /\ builds = 0

\* ch <- v by goroutine g, which goes on to `to`: it proceeds when the buffer
\* has room.
Send(g, ch, v, to) ==
    /\ Len(chans[ch]) < capacity(ch)
    /\ chans' = [chans EXCEPT ![ch] = Append(@, v)]
    /\ pc' = [pc EXCEPT ![g] = to]
    /\ attach' = [attach EXCEPT !.sent[ch] = @ + 1]

\* attachContainer up to its select: the channels and the pipe are made, the
\* StdCopy goroutine and the hijack goroutine are started.
AttachContainer ==
    /\ pc["handleRun"] = "attachContainer"
    /\ pc' = [pc EXCEPT !["handleRun"] = "select", !["StdCopy"] = "Read",
                        !["hijack"] = "Dial"]
    /\ UNCHANGED <<chans, attach, restVars>>

\* attachContainer's select: on hijackStarted it returns hijackErr and nil, on
\* hijackErr an error, with which handleRun returns.
AttachSelect ==
    /\ pc["handleRun"] = "select"
    /\ \E ch \in selectReady(chans) :
         /\ chans' = [chans EXCEPT ![ch] = IF @ = << >> THEN @ ELSE Tail(@)]
         /\ IF ch = "hijackStarted"
            THEN pc' = [pc EXCEPT !["handleRun"] = "StartContainer"] /\ attach' = attach
            ELSE /\ pc' = [pc EXCEPT !["handleRun"] = "returned"]
                 /\ attach' = [attach EXCEPT !.ret = "unable to attach to container"]
    /\ UNCHANGED restVars

\* handleRun: b.client.StartContainer, which may fail.
StartContainer ==
    /\ pc["handleRun"] = "StartContainer"
    /\ \/ /\ pc' = [pc EXCEPT !["handleRun"] = "waitHijack"]
          /\ attach' = [attach EXCEPT !.started = TRUE]
       \/ /\ pc' = [pc EXCEPT !["handleRun"] = "returned"]
          /\ attach' = [attach EXCEPT !.ret = "unable to start container"]
    /\ UNCHANGED <<chans, restVars>>

\* handleRun: <-errC, the wait for the hijack to end.
WaitHijack ==
    /\ pc["handleRun"] = "waitHijack" /\ chans["hijackErr"] # << >>
    /\ chans' = [chans EXCEPT !["hijackErr"] = Tail(@)]
    /\ IF Head(chans["hijackErr"]) # nil
       THEN /\ pc' = [pc EXCEPT !["handleRun"] = "returned"]
            /\ attach' = [attach EXCEPT !.ret = "unable to end hijack stream"]
       ELSE pc' = [pc EXCEPT !["handleRun"] = "StopContainer"] /\ attach' = attach
    /\ UNCHANGED restVars

\* handleRun: the container is stopped and inspected; any of it may fail.
StopContainer ==
    /\ pc["handleRun"] = "StopContainer"
    /\ pc' = [pc EXCEPT !["handleRun"] = "returned"]
    /\ \E err \in {nil, "unable to stop/kill container", "unable to inspect container",
                   "non-zero exit code"} :
         attach' = [attach EXCEPT !.ret = err]
    /\ UNCHANGED <<chans, restVars>>

\* hijack up to clientconn.Hijack(): the request, the daemon URL and the dial
\* may each fail, and hijack then returns before it signals.
HijackDial ==
    /\ pc["hijack"] = "Dial"
    /\ \/ \E err \in EarlyErrors :
            /\ attach' = [attach EXCEPT !.hijackRet = err]
            /\ pc' = [pc EXCEPT !["hijack"] = "sendHijackErr"]
       \/ /\ attach' = [attach EXCEPT !.conn = "open"]
          /\ pc' = [pc EXCEPT !["hijack"] = "signal"]
    /\ UNCHANGED <<chans, restVars>>

\* hijack: started <- 1
HijackSignal ==
    /\ pc["hijack"] = "signal"
    /\ Send("hijack", "hijackStarted", 1, "spawn")
    /\ UNCHANGED restVars

\* hijack: outputErr and inputErr are made and the two copiers started.
HijackSpawn ==
    /\ pc["hijack"] = "spawn"
    /\ pc' = [pc EXCEPT !["hijack"] = "waitOutput", !["output"] = "Copy",
                        !["input"] = "Copy"]
    /\ UNCHANGED <<chans, attach, restVars>>

\* hijack: <-outputErr; an error makes hijack return, which closes the
\* connection (the deferred rwc.Close and clientconn.Close).
HijackWaitOutput ==
    /\ pc["hijack"] = "waitOutput" /\ chans["outputErr"] # << >>
    /\ chans' = [chans EXCEPT !["outputErr"] = Tail(@)]
    /\ IF Head(chans["outputErr"]) # nil
       THEN /\ pc' = [pc EXCEPT !["hijack"] = "sendHijackErr"]
            /\ attach' = [attach EXCEPT !.hijackRet = "unable to get output",
                                        !.conn = "closed"]
       ELSE pc' = [pc EXCEPT !["hijack"] = "waitInput"] /\ attach' = attach
    /\ UNCHANGED restVars

\* hijack: <-inputErr, then return nil (the input copier only sends nil).
HijackWaitInput ==
    /\ pc["hijack"] = "waitInput" /\ chans["inputErr"] # << >>
    /\ chans' = [chans EXCEPT !["inputErr"] = Tail(@)]
    /\ pc' = [pc EXCEPT !["hijack"] = "sendHijackErr"]
    /\ attach' = [attach EXCEPT !.hijackRet = IF Head(chans["inputErr"]) # nil
                                              THEN "unable to send input" ELSE nil,
                                !.conn = "closed"]
    /\ UNCHANGED restVars

\* The hijack goroutine of attachContainer: hijackErr <- what hijack returned.
HijackReturn ==
    /\ pc["hijack"] = "sendHijackErr"
    /\ Send("hijack", "hijackErr", attach.hijackRet, "done")
    /\ UNCHANGED restVars

\* The output copier, io.Copy(out, br), reading: the daemon sends a frame of
\* the started container's output, closes the stream, or the read fails.
OutputRead ==
    /\ pc["output"] = "Copy"
    /\ \/ /\ attach.started /\ attach.frames > 0
          /\ pc' = [pc EXCEPT !["output"] = "Write"]
          /\ attach' = [attach EXCEPT !.frames = @ - 1]
       \/ /\ pc' = [pc EXCEPT !["output"] = "sendOutputErr"]
          /\ \E err \in {nil, "read error"} : attach' = [attach EXCEPT !.outputRet = err]
    /\ UNCHANGED <<chans, restVars>>

\* The output copier writing to the pipe: the Write returns when StdCopy has
\* read the frame, or with an error when the pipe's reader is closed.  StdCopy
\* copies the frame to b.out and reads on, or returns on a frame it cannot
\* decode, and its goroutine then closes the reader.  A Read of the pipe
\* returns only for a Write or a Close of the writer, and nothing closes the
\* writer (run.go:93-101, part_004:78-81).
PipeWrite ==
    /\ pc["output"] = "Write"
    /\ \/ /\ pc["StdCopy"] = "Read"
          /\ \/ /\ pc' = [pc EXCEPT !["output"] = "Copy"]
                /\ attach' = [attach EXCEPT !.copied = @ + 1]
             \/ /\ pc' = [pc EXCEPT !["output"] = "Copy", !["StdCopy"] = "done"]
                /\ attach' = [attach EXCEPT !.pipeReader = "closed"]
       \/ /\ attach.pipeReader = "closed"
          /\ pc' = [pc EXCEPT !["output"] = "sendOutputErr"]
          /\ attach' = [attach EXCEPT !.outputRet = "io: read/write on closed pipe"]
    /\ UNCHANGED <<chans, restVars>>

\* The output copier: outputErr <- err
OutputSend ==
    /\ pc["output"] = "sendOutputErr"
    /\ Send("output", "outputErr", attach.outputRet, "done")
    /\ UNCHANGED restVars

\* The input copier: io.Copy(rwc, in) ends, with or without an error.
InputCopy ==
    /\ pc["input"] = "Copy"
    /\ pc' = [pc EXCEPT !["input"] = "CloseWrite"]
    /\ UNCHANGED <<chans, attach, restVars>>

\* The input copier: cw.CloseWrite()
InputCloseWrite ==
    /\ pc["input"] = "CloseWrite"
    /\ pc' = [pc EXCEPT !["input"] = "sendInputErr"]
    /\ attach' = [attach EXCEPT !.writeClosed = TRUE]
    /\ UNCHANGED <<chans, restVars>>

\* The input copier: inputErr <- nil
InputSend ==
    /\ pc["input"] = "sendInputErr"
    /\ Send("input", "inputErr", nil, "done")
    /\ UNCHANGED restVars

handleRunNext == AttachContainer \/ AttachSelect \/ StartContainer \/ WaitHijack \/ StopContainer

hijackNext == HijackDial \/ HijackSignal \/ HijackSpawn \/ HijackWaitOutput \/ HijackWaitInput
                \/ HijackReturn

outputNext == OutputRead \/ PipeWrite \/ OutputSend

inputNext == InputCopy \/ InputCloseWrite \/ InputSend

HijackNext == handleRunNext \/ hijackNext \/ outputNext \/ inputNext

SpecHijack == HijackInit /\ [][HijackNext]_vars

\* The goroutines are scheduled fairly: one that can take a step takes it.
SpecHijackFair ==
    /\ SpecHijack
    /\ WF_vars(handleRunNext) /\ WF_vars(hijackNext)
    /\ WF_vars(outputNext) /\ WF_vars(inputNext)

(***************************************************************************)
(* C36: the container is started only after hijack has signalled on        *)
(* started and attachContainer has received the signal; when hijack fails  *)
(* before it signals (request, URL or dial error) the container is never   *)
(* started and handleRun can only return the attach error.                 *)
(***************************************************************************)
C36_StartAfterSignal ==
    /\ attach.started \/ pc["handleRun"] \in {"StartContainer", "waitHijack", "StopContainer"} =>
         /\ attach.sent["hijackStarted"] = 1 /\ chans["hijackStarted"] = << >>
         /\ attach.conn # "none"
         /\ pc["hijack"] \notin {"idle", "Dial", "signal"}
    /\ attach.hijackRet \in EarlyErrors =>
         /\ ~attach.started /\ attach.sent["hijackStarted"] = 0
         /\ pc["handleRun"] \in {"select", "returned"}
         /\ pc["handleRun"] = "returned" => attach.ret = "unable to attach to container"

\* The container was started after the signal.
C36_Witness ==
    /\ attach.started /\ pc["handleRun"] = "waitHijack"
    /\ attach.sent["hijackStarted"] = 1 /\ pc["hijack"] = "waitOutput"

\* The dial failed and handleRun returned the attach error.
C36_WitnessDial ==
    /\ attach.hijackRet = "unable to dial for hijack" /\ pc["handleRun"] = "returned"
    /\ attach.ret = "unable to attach to container" /\ ~attach.started

(***************************************************************************)
(* C37: hijack returns nil only after the output copy ended without error  *)
(* and the input copy ended and closed the write side; each of the four    *)
(* channels is sent to at most once and has room for that value, so a      *)
(* goroutine that is at a send is never blocked there.                     *)
(***************************************************************************)
\* The channel goroutine g is about to send to, if any.
SendingTo(g) ==
    IF g = "hijack" /\ pc[g] = "signal" THEN {"hijackStarted"}
    ELSE IF g = "hijack" /\ pc[g] = "sendHijackErr" THEN {"hijackErr"}
    ELSE IF g = "output" /\ pc[g] = "sendOutputErr" THEN {"outputErr"}
    ELSE IF g = "input" /\ pc[g] = "sendInputErr" THEN {"inputErr"}
    ELSE {}

C37_NoBlockedSend ==
    /\ attach.hijackRet = nil =>
         /\ pc["output"] = "done" /\ attach.outputRet = nil
         /\ pc["input"] = "done" /\ attach.writeClosed
    /\ \A ch \in Channels :
         /\ attach.sent[ch] <= 1
         /\ Len(chans[ch]) <= attach.sent[ch]
    /\ \A g \in Goroutines : \A ch \in SendingTo(g) : Len(chans[ch]) < capacity(ch)

\* hijack returned on an output error; the input copier has sent its value
\* to the channel nobody will receive from, and ended.
C37_Witness ==
    /\ attach.hijackRet = "unable to get output" /\ pc["hijack"] = "done"
    /\ pc["input"] = "done" /\ chans["inputErr"] = <<nil>>
    /\ pc["handleRun"] = "returned"

(***************************************************************************)
(* C38, as stated: once the hijack of the attach has ended, the daemon     *)
(* having closed the output stream, the goroutine that reads the pipe      *)
(* into StdCopy eventually ends.                                           *)
(***************************************************************************)
HijackEnded == pc["hijack"] = "done" /\ attach.outputRet = nil

C38_AsStated == HijackEnded ~> (pc["StdCopy"] = "done")

\* Every goroutine but the StdCopy one ends.
C38_OthersEnd ==
    <>[](\A g \in {"handleRun", "hijack", "output", "input"} :
            pc[g] \in {"done", "returned", "idle"})

\* The run ended well, and the StdCopy goroutine is still reading the pipe.
C38_NoReaderLeftBehind ==
    ~(/\ pc["handleRun"] = "returned" /\ attach.ret = nil /\ pc["hijack"] = "done"
      /\ pc["output"] = "done" /\ pc["input"] = "done" /\ pc["StdCopy"] = "Read")

(***************************************************************************)
(* Parse: the tokens the scanner yields are appended one by one, each      *)
(* merged into the token before it when that token's Merge allows; then    *)
(* the commands are read off the merged tokens.  The scanner yields any    *)
(* sequence of the four kinds of token.                                    *)
(***************************************************************************)
tokenTypeArg == 0

tokenTypeWhitespace == 1

tokenTypeHeredoc == 2

tokenTypeNewline == 3

\* argToken(v), whitespaceToken{}, newlineToken{}, heredocToken(v)
argToken(v) == [type |-> tokenTypeArg, value |-> v]

whitespaceToken == [type |-> tokenTypeWhitespace, value |-> << >>]

newlineToken == [type |-> tokenTypeNewline, value |-> << >>]

heredocToken(v) == [type |-> tokenTypeHeredoc, value |-> v]

\* The Merge methods: << >> is nil, <<t>> the merged token.
argTokenMerge(t, next) ==
    IF next.type # tokenTypeArg THEN << >> ELSE <<argToken(t.value \o next.value)>>

whitespaceTokenMerge(t, next) ==
    IF next.type = tokenTypeWhitespace THEN <<whitespaceToken>>
    ELSE IF next.type = tokenTypeNewline THEN <<newlineToken>>
    ELSE << >>

\* newlineToken.Merge taking whitespace only.
newlineTokenMergeWhitespace(t, next) ==
    IF next.type = tokenTypeWhitespace THEN <<newlineToken>> ELSE << >>

newlineTokenMerge(t, next) ==
    IF next.type \in {tokenTypeWhitespace, tokenTypeNewline} THEN <<newlineToken>> ELSE << >>

heredocTokenMerge(t, next) ==
    IF next.type \in {tokenTypeWhitespace, tokenTypeNewline} THEN <<t>> ELSE << >>

\* prevToken.Merge(currentToken), by the type of prevToken.
Merge(t, next) ==
    IF t.type = tokenTypeArg THEN argTokenMerge(t, next)
    ELSE IF t.type = tokenTypeWhitespace THEN whitespaceTokenMerge(t, next)
    ELSE IF t.type = tokenTypeNewline THEN newlineTokenMerge(t, next)
    ELSE heredocTokenMerge(t, next)

\* One turn of Parse's first loop: currentToken is appended and merged into
\* the token before it if that token's Merge returns one.
scanToken(list, currentToken) ==
    IF Len(list) = 0 THEN <<currentToken>>
    ELSE Bind(Merge(list[Len(list)], currentToken), LAMBDA mergedToken :
           IF mergedToken # << >>
           THEN [list EXCEPT ![Len(list)] = mergedToken[1]]
           ELSE Append(list, currentToken))

\* Parse's second loop from token i on.  currentCommand is << >> for nil and
\* <<command>> for a pointer to a Command, and so is each of the commands.
RECURSIVE parseLoop(_, _, _, _, _)
parseLoop(list, i, beginning, currentCommand, cmds) ==
    IF i > Len(list)
    THEN [commands |-> IF currentCommand # << >> THEN Append(cmds, currentCommand) ELSE cmds,
          err |-> nil]
    ELSE IF list[i].type = tokenTypeWhitespace
    THEN parseLoop(list, i + 1, beginning, currentCommand, cmds)
    ELSE IF list[i].type = tokenTypeNewline
    THEN IF ~beginning
         THEN parseLoop(list, i + 1, beginning, << >>, Append(cmds, currentCommand))
         ELSE parseLoop(list, i + 1, beginning, currentCommand, cmds)
    ELSE IF list[i].type = tokenTypeHeredoc
    THEN IF currentCommand = << >> THEN [commands |-> << >>, err |-> "unexpected heredoc"]
         ELSE parseLoop(list, i + 1, beginning, << >>,
                        Append(cmds, <<[currentCommand[1] EXCEPT !.Heredoc = list[i].value]>>))
    ELSE IF list[i].type # tokenTypeArg
    THEN [commands |-> << >>, err |-> "unexpected token"]
    ELSE parseLoop(list, i + 1, FALSE,
                   IF currentCommand = << >>
                   THEN <<[Args |-> <<list[i].value>>, Heredoc |-> << >>]>>
                   ELSE <<[currentCommand[1] EXCEPT !.Args = Append(@, list[i].value)]>>,
                   cmds)

MaxTokens == 5

\* The tokens of the scanner: the arguments "a" and "" (from ''), whitespace,
\* a newline or comment, the heredoc "h".
ScannerTokens ==
    {argToken(<<97>>), argToken(<< >>), whitespaceToken, newlineToken, heredocToken(<<104>>)}

\* Parse is called on an input that lexes to up to MaxTokens tokens.
ParseInit ==
    /\ \E input \in SeqsUpTo(ScannerTokens, MaxTokens) :
         tokens = [input |-> input, scanned |-> 0, list |-> << >>, out |-> << >>]
    /\ pc = [g \in Goroutines |-> "idle"]
    /\ chans = [c \in Channels |-> << >>]
    /\ attach = << >>
    /\ tsd = NewDigest(Version1) /\ archive = << >> /\ pos = 0
    /\ last = NoWrite /\ restored = "none"
    /\ builder = << >> /\ commands = << >> /\ stepIndex = 0
    /\ result = "none" /\ step = << >> /\ builds = 0

\* scanner.Scan() returns true: one turn of the first loop.
Scan ==
    /\ tokens.out = << >> /\ tokens.scanned < Len(tokens.input)
    /\ tokens' = [tokens EXCEPT !.scanned = @ + 1,
                                !.list = scanToken(@, tokens.input[tokens.scanned + 1])]
    /\ UNCHANGED <<tsd, archive, pos, last, restored, builder, commands, stepIndex, result,
                   step, builds, pc, chans, attach>>

\* scanner.Scan() returns false without an error: the second loop, and Parse
\* returns.
ParseCommands ==
    /\ tokens.out = << >> /\ tokens.scanned = Len(tokens.input)
    /\ tokens' = [tokens EXCEPT !.out = <<parseLoop(tokens.list, 1, TRUE, << >>, << >>)>>]
    /\ UNCHANGED <<tsd, archive, pos, last, restored, builder, commands, stepIndex, result,
                   step, builds, pc, chans, attach>>

ParseNext == Scan \/ ParseCommands

SpecParse == ParseInit /\ [][ParseNext]_vars

(***************************************************************************)
(* C39: Parse returns an error and no commands, or commands each of which  *)
(* is a non-nil Command with at least one argument; in the merged token    *)
(* list a newline never follows a newline or a heredoc; and lines that     *)
(* are empty, hold only whitespace or only a comment give no command:      *)
(* there is one command per run of arguments.                              *)
(***************************************************************************)
\* The tokens of s without its whitespace tokens.
RECURSIVE WithoutWhitespace(_)
WithoutWhitespace(s) ==
    IF s = << >> THEN << >>
    ELSE IF Head(s).type = tokenTypeWhitespace THEN WithoutWhitespace(Tail(s))
    ELSE <<Head(s)>> \o WithoutWhitespace(Tail(s))

\* How many runs of arguments s holds: arguments not separated by a newline
\* or a heredoc form one command.
ArgRuns(s) ==
    LET t == WithoutWhitespace(s)
    IN Cardinality({i \in 1..Len(t) : /\ t[i].type = tokenTypeArg
                                      /\ (i = 1 \/ t[i - 1].type # tokenTypeArg)})

C39_CommandsHaveArgs ==
    /\ \A i \in 2..Len(tokens.list) :
         tokens.list[i].type = tokenTypeNewline =>
           tokens.list[i - 1].type \notin {tokenTypeNewline, tokenTypeHeredoc}
    /\ tokens.out # << >> =>
         \E r \in {tokens.out[1]} :
           /\ r.err # nil => r.commands = << >>
           /\ r.err = nil =>
                /\ \A i \in 1..Len(r.commands) :
                     r.commands[i] # << >> /\ Len(r.commands[i][1].Args) >= 1
                /\ Len(r.commands) = ArgRuns(tokens.input)

\* Two commands with an empty line and a whitespace-only line between them.
C39_Witness ==
    /\ tokens.out # << >> /\ tokens.out[1].err = nil
    /\ Len(tokens.out[1].commands) = 2
    /\ tokens.input = <<argToken(<<97>>), newlineToken, whitespaceToken, newlineToken,
                        argToken(<<97>>)>>

====
